---- MODULE Spec2Model ----
(***************************************************************************)
(* The device session of spark-protocol (class Device) as a state machine. *)
(* One session is modelled: its counters, token table, cipher streams,     *)
(* ownership lock, listeners created by listenFor, and teardown.           *)
(*                                                                         *)
(* Handlers are operators from a session record to a session record, so    *)
(* that a handler that calls another one (routeMessage -> sendReply,       *)
(* routeMessage -> disconnect, startHandshake -> sendMessage) is the       *)
(* composition of the operators.  Every action applies one top-level       *)
(* handler to the variable dev and records the call in the variable last.  *)
(***************************************************************************)
EXTENDS Integers, Sequences, FiniteSets, TLC

VARIABLES dev, last, calls

vars == <<dev, last, calls>>

(***************************************************************************)
(* Program constants.                                                      *)
(***************************************************************************)
COUNTER_MAX == 65536
TOKEN_COUNTER_MAX == 256

(***************************************************************************)
(* Bounds of the model.                                                    *)
(***************************************************************************)
MaxSends == 2
MaxInbound == 2
MaxPending == 1
MaxListeners == 1
MaxDisconnects == 2
LongSends == 258
LongAnswers == 16
LongInbound == 1
MaxVerbs == 1
MaxVerbInbound == 3
MaxServerInbound == 3

(***************************************************************************)
(* Values standing for null / undefined.                                   *)
(***************************************************************************)
NoOne == "null"
NoToken == -2
NoUri == <<>>

Flashers == {"F1"}
Requesters == {NoOne} \cup Flashers

(***************************************************************************)
(* The Message Table (lib/Messages), as far as the session consults it.    *)
(***************************************************************************)
MessageNames ==
  {"Hello", "Describe", "VariableRequest", "FunctionCall", "SignalStart",
   "UpdateBegin", "Chunk", "UpdateDone",
   "PublicEvent", "PingAck", "EventAck", "Ignored"}

\* Messages.isNonTypeMessage: the messages that bear no token.
isNonTypeMessage(messageName) ==
  messageName \in {"Hello", "PublicEvent", "PingAck", "EventAck"}

\* Messages.getResponseType: the response type of a request ('' when none).
getResponseType(request) ==
  CASE request = "Describe" -> "DescribeReturn"
    [] request = "VariableRequest" -> "VariableValue"
    [] request = "FunctionCall" -> "FunctionReturn"
    [] request = "SignalStart" -> "SignalStartReturn"
    [] request = "UpdateBegin" -> "UpdateReady"
    [] request = "Chunk" -> "ChunkReceived"
    [] request = "UpdateDone" -> "UpdateDoneAck"
    [] request = "Hello" -> "Hello"
    [] OTHER -> ""

\* Messages.wrap: a frame, or null when the name is unknown or the
\* parameters fail the codec.
wrap(messageName, paramsOk) == messageName \in MessageNames /\ paramsOk

(***************************************************************************)
(* h5.coap Message.getTokenString: the token bytes in hexadecimal, two      *)
(* lowercase digits per byte; the empty string when there is no token.     *)
(***************************************************************************)
HexDigits ==
  <<"0", "1", "2", "3", "4", "5", "6", "7", "8", "9", "a", "b", "c", "d", "e", "f">>

getTokenString(token) ==
  IF token = NoToken THEN ""
  ELSE HexDigits[(token \div 16) + 1] \o HexDigits[(token % 16) + 1]

\* Number.prototype.toString(16) of an integer.
RECURSIVE toString16(_)
toString16(value) ==
  IF value < 0 THEN "-" \o toString16(0 - value)
  ELSE IF value < 16 THEN HexDigits[value + 1]
  ELSE toString16(value \div 16) \o HexDigits[(value % 16) + 1]

\* Device._toHexString
_toHexString(value) == (IF value < 10 THEN "0" ELSE "") \o toString16(value)

(***************************************************************************)
(* Counters.                                                               *)
(***************************************************************************)
_increment_OffByOne(counter, maxSize) ==
  IF counter + 1 <= maxSize THEN counter + 1 ELSE 0

_increment(counter, maxSize) ==
  IF counter + 1 < maxSize THEN counter + 1 ELSE 0

_incrementSendCounter_Skip(d) == d

_incrementSendCounter(d) ==
  [d EXCEPT !.sendCounter = _increment(d.sendCounter, COUNTER_MAX)]

_incrementReceiveCounter_Skip(d) == d

_incrementReceiveCounter(d) ==
  [d EXCEPT !.recieveCounter = _increment(d.recieveCounter, COUNTER_MAX)]

\* CryptoManager.getRandomUINT16: floor(random * 65535 + 1), in 1..65535.
SeedSamples == {65534}
getRandomUINT16 == {v \in SeedSamples : 1 <= v /\ v <= (2 ^ 16) - 1}

(***************************************************************************)
(* The token table _tokens: a set of entries [key, name], one per key.     *)
(***************************************************************************)
\* _tokens[key], '' standing for undefined.
TokenAt(tokens, key) ==
  IF \E e \in tokens : e.key = key
    THEN (CHOOSE e \in tokens : e.key = key).name
    ELSE ""

_clearToken_Keep(d, sendToken) == d

_clearToken(d, sendToken) ==
  LET key == _toHexString(sendToken)
  IN  IF TokenAt(d.tokens, key) # ""
        THEN [d EXCEPT !.tokens = {e \in d.tokens : e.key # key}]
        ELSE d

_incrementSendToken(d) ==
  LET d1 == [d EXCEPT !.sendToken = _increment(d.sendToken, TOKEN_COUNTER_MAX)]
  IN  _clearToken(d1, d1.sendToken)

_useToken_Forget(d, name, sendToken) == [d |-> d, threw |-> FALSE]

\* _useToken: registers the request under the key; throws when the key is
\* occupied.  The result says whether it threw.
_useToken(d, name, sendToken) ==
  LET key == _toHexString(sendToken)
  IN  IF TokenAt(d.tokens, key) # ""
        THEN [d |-> d, threw |-> TRUE]
        ELSE [d |-> [d EXCEPT !.tokens = @ \cup {[key |-> key, name |-> name]}],
              threw |-> FALSE]

_getResponseType(d, tokenString) ==
  LET request == TokenAt(d.tokens, tokenString)
  IN  IF request = "" THEN "" ELSE getResponseType(request)

(***************************************************************************)
(* The ownership lock.                                                     *)
(***************************************************************************)
_isSocketAvailable_Open(d, requester) == TRUE

_isSocketAvailable(d, requester) ==
  d.owningFlasher = NoOne \/ d.owningFlasher = requester

takeOwnership_Steal(d, flasher) ==
  [d |-> [d EXCEPT !.owningFlasher = flasher], ret |-> TRUE]

takeOwnership(d, flasher) ==
  IF d.owningFlasher # NoOne
    THEN [d |-> d, ret |-> FALSE]
    ELSE [d |-> [d EXCEPT !.owningFlasher = flasher], ret |-> TRUE]

releaseOwnership_Keep(d, flasher) == d

releaseOwnership(d, flasher) ==
  IF d.owningFlasher = flasher
    THEN [d EXCEPT !.owningFlasher = NoOne]
    ELSE d

(***************************************************************************)
(* Listeners created by listenFor.  A listener is a record                 *)
(*   eventName, uri, tokenHex : what it waits for ("" / <<>> for none)     *)
(*   timer    : "armed", "cleared" (clearTimeout) or "fired"               *)
(*   attached : its handlers are registered on the session                 *)
(*   state    : of its promise: "pending", "resolved", "timedout",         *)
(*              "rejected" (by disconnect)                                 *)
(*   expired  : the timeout interval has elapsed since its creation        *)
(*   early    : it was created before the first disconnect call            *)
(*   payload  : the payload of the message it resolved with                *)
(***************************************************************************)
IsPrefix(p, s) == Len(p) <= Len(s) /\ SubSeq(s, 1, Len(p)) = p

cleanUpListeners(l) == [l EXCEPT !.attached = FALSE]

Settle(l, state) == IF l.state = "pending" THEN [l EXCEPT !.state = state] ELSE l

\* listenFor's handler, called with a message emitted under eventName.
handler_AnyToken(l, message) ==
  IF l.uri # NoUri /\ ~IsPrefix(l.uri, message.uri) THEN l
  ELSE [Settle(cleanUpListeners(l), "resolved") EXCEPT !.payload = message.payload]

handler(l, message) ==
  LET l1 == [l EXCEPT !.timer = IF @ = "armed" THEN "cleared" ELSE @]
  IN  IF l.uri # NoUri /\ ~IsPrefix(l.uri, message.uri) THEN l1
      ELSE IF l.tokenHex # "" /\ l.tokenHex # getTokenString(message.token) THEN l1
      ELSE IF l.state # "pending" THEN cleanUpListeners(l1)
      ELSE [Settle(cleanUpListeners(l1), "resolved") EXCEPT !.payload = message.payload]

disconnectHandler_Silent(l) == l

\* listenFor's disconnectHandler.
disconnectHandler(l) == Settle(cleanUpListeners(l), "rejected")

timeoutCallback_NoReject(l) == [cleanUpListeners(l) EXCEPT !.timer = "fired"]

\* The timeout callback of listenFor.
timeoutCallback(l) ==
  [Settle(cleanUpListeners(l), "timedout") EXCEPT !.timer = "fired"]

\* listenFor: a listener waiting for eventName; a token of 0 or null sets no
\* token filter.
listenFor(d, eventName, uri, token) ==
  [d EXCEPT !.listeners =
     Append(@, [eventName |-> eventName, uri |-> uri,
                token |-> token,
                tokenHex |-> IF token # 0 /\ token # NoToken
                               THEN _toHexString(token) ELSE "",
                timer |-> "armed", attached |-> TRUE, state |-> "pending",
                expired |-> FALSE, early |-> d.disconnectCounter = 0,
                payload |-> ""])]

\* EventEmitter.emit of a message event: every attached listener of that
\* name runs its handler.
emit(d, eventName, message) ==
  [d EXCEPT
     !.ev = Append(@, [name |-> eventName, msg |-> message]),
     !.listeners = [i \in DOMAIN @ |->
                      IF @[i].attached /\ @[i].eventName = eventName
                        THEN handler(@[i], message)
                        ELSE @[i]]]

(***************************************************************************)
(* Frames written to the cipher stream, and the reply and send paths.      *)
(***************************************************************************)
write(d, messageName, id, token) ==
  [d EXCEPT !.out = Append(@, [name |-> messageName, id |-> id, token |-> token])]

\* sendReply, fresh saying whether it allocates a message-id of its own.
sendReplyWith(d, messageName, id, token, requester, fresh) ==
  IF ~_isSocketAvailable(d, requester) THEN d
  ELSE LET d1 == IF fresh THEN _incrementSendCounter(d) ELSE d
           id1 == IF fresh THEN d1.sendCounter ELSE id
       IN  IF ~wrap(messageName, TRUE) THEN d1
           ELSE IF ~d1.cipherStream THEN d1
           ELSE write(d1, messageName, id1, token)

sendReply_FreshId(d, messageName, id, token, requester) ==
  sendReplyWith(d, messageName, id, token, requester, TRUE)

\* sendReply: a fresh message-id when the caller passes a negative id, else
\* the id passed.
sendReply(d, messageName, id, token, requester) ==
  sendReplyWith(d, messageName, id, token, requester, id < 0)

\* sendMessage: the session after the call, the value returned, and whether
\* the call threw (then nothing is returned).  The fields allocated and live
\* are history: the tokens allocated so far, and the requests written whose
\* response has not been emitted yet.
sendMessage(d, messageName, paramsOk, requester) ==
  IF ~_isSocketAvailable(d, requester) THEN [d |-> d, ret |-> -1, threw |-> FALSE]
  ELSE
    LET d1 == _incrementSendCounter(d)
        bearsToken == ~isNonTypeMessage(messageName)
        d2 == IF bearsToken THEN _incrementSendToken(d1) ELSE d1
        used == IF bearsToken THEN _useToken(d2, messageName, d2.sendToken)
                ELSE [d |-> d2, threw |-> FALSE]
        d3 == IF bearsToken
                THEN [used.d EXCEPT !.allocated = @ \cup {d2.sendToken}]
                ELSE used.d
        token == IF bearsToken THEN d3.sendToken ELSE NoToken
    IN  IF used.threw THEN [d |-> d3, ret |-> -1, threw |-> TRUE]
        ELSE IF ~wrap(messageName, paramsOk) THEN [d |-> d3, ret |-> -1, threw |-> FALSE]
        ELSE IF ~d3.cipherStream THEN [d |-> d3, ret |-> -1, threw |-> FALSE]
        ELSE [d |-> [write(d3, messageName, d3.sendCounter, token) EXCEPT
                       !.live = IF bearsToken
                                  THEN {e \in @ : e.token # token}
                                         \cup {[token |-> token, name |-> messageName]}
                                  ELSE @],
              ret |-> IF token = NoToken THEN 0 ELSE token,
              threw |-> FALSE]

(***************************************************************************)
(* disconnect.  thr says which teardown calls raise: the socket's end(),   *)
(* the decipher stream's end(), the cipher stream's end().                 *)
(***************************************************************************)
NoThrow == [sock |-> FALSE, dec |-> FALSE, enc |-> FALSE]
Throws ==
  {t \in [sock : BOOLEAN, dec : BOOLEAN, enc : BOOLEAN] :
     Cardinality({f \in {"sock", "dec", "enc"} : t[f]}) <= 1}

\* emit(DISCONNECT, message): every attached listener's disconnectHandler.
emitDisconnect(d, message) ==
  [d EXCEPT
     !.ev = Append(@, [name |-> "disconnect", msg |-> [reason |-> message]]),
     !.disconnectEmits = @ + 1,
     !.disconnectReason = message,
     !.listeners = [i \in DOMAIN @ |->
                      IF @[i].attached THEN disconnectHandler(@[i]) ELSE @[i]]]

removeAllListeners(d) ==
  [d EXCEPT !.listeners = [i \in DOMAIN @ |-> cleanUpListeners(@[i])],
            !.serverAttached = FALSE]

disconnect(d, message, thr) ==
  LET d1 == [d EXCEPT !.disconnectCounter = @ + 1]
  IN  IF d1.disconnectCounter > 1 THEN d1
      ELSE
        LET d2 == [d1 EXCEPT !.socketEnds = @ + 1,
                             !.socketDestroys = IF thr.sock THEN @ ELSE @ + 1]
            d3 == IF d2.decipherStream /\ ~thr.dec
                    THEN [d2 EXCEPT !.decipherStream = FALSE] ELSE d2
            d4 == IF d3.cipherStream /\ ~thr.enc
                    THEN [d3 EXCEPT !.cipherStream = FALSE] ELSE d3
        IN  removeAllListeners(emitDisconnect(d4, message))

(***************************************************************************)
(* Inbound frames.  A message is a record                                  *)
(*   type    : "CON", "NON" or "ACK"                                       *)
(*   code    : "EMPTY", "REQ" (a request code) or "RESP" (a response code) *)
(*   id      : its message-id                                              *)
(*   token   : its one-byte token, or NoToken                              *)
(*   reqName : what Messages.getRequestType gives for it                   *)
(*   uri     : its URI path                                                *)
(*   payload : what its payload holds ("" when that does not matter)       *)
(* and Garbage is a frame that Messages.unwrap cannot parse.               *)
(***************************************************************************)
Garbage ==
  [type |-> "garbage", code |-> "EMPTY", id |-> 0, token |-> NoToken,
   reqName |-> "", uri |-> <<>>, payload |-> ""]

NoMsg ==
  [type |-> "none", code |-> "EMPTY", id |-> 0, token |-> NoToken,
   reqName |-> "", uri |-> <<>>, payload |-> ""]

isAcknowledgement_Never(message) == FALSE

isAcknowledgement(message) == message.type = "ACK"
isConfirmable(message) == message.type = "CON"
isEmpty(message) == message.code = "EMPTY"
IsResponse(message) == message.type = "ACK" \/ message.code = "RESP"

\* History: the request whose response is emitted is no longer live.
Answered(d, message) ==
  IF IsResponse(message)
    THEN [d EXCEPT !.live = {e \in @ : e.token # message.token}]
    ELSE d

routeMessage(d0, data, thr) ==
  LET d == [d0 EXCEPT !.rx = @ + 1]
  IN
  IF data.type = "garbage" THEN d
  ELSE
    LET message == data
        named == IF message.code = "REQ" THEN message.reqName ELSE ""
        requestType == IF named = ""
                         THEN _getResponseType(d, getTokenString(message.token))
                         ELSE named
    IN
    IF isAcknowledgement(message)
      THEN emit(Answered(d, message),
                IF requestType = "" THEN "PingAck" ELSE requestType, message)
    ELSE
      LET d1 == _incrementReceiveCounter(d)
      IN  IF isEmpty(message) /\ isConfirmable(message)
            THEN sendReply([d1 EXCEPT !.lastCorePing = d1.rx],
                           "PingAck", message.id, NoToken, NoOne)
          ELSE IF message.id # d1.recieveCounter
            THEN IF requestType = "Ignored"
                   THEN disconnect(d1, "Got an Ignore", thr)
                   ELSE disconnect(d1, "Bad Counter", thr)
          ELSE emit(Answered(d1, message), requestType, message)

RECURSIVE routeAll(_, _, _)
routeAll(d, buffers, thr) ==
  IF buffers = <<>> THEN d
  ELSE routeAll(routeMessage(d, Head(buffers), thr), Tail(buffers), thr)

(***************************************************************************)
(* The handshake and Ready.                                                *)
(***************************************************************************)
\* ready: the cluster-routing emission may raise; then READY is not emitted.
ready(d, ipcOk) ==
  IF ~ipcOk THEN [d |-> [d EXCEPT !.connectionStartTime = TRUE], threw |-> TRUE]
  ELSE [d |-> [d EXCEPT !.connectionStartTime = TRUE,
                        !.readyEmits = @ + 1,
                        !.ev = Append(@, [name |-> "ready", msg |-> NoMsg])],
        threw |-> FALSE]

_sendHello_NoSeed(d, seed) ==
  sendMessage([d EXCEPT !.cipherStream = TRUE, !.decipherStream = TRUE],
              "Hello", TRUE, NoOne).d

_sendHello(d, seed) ==
  sendMessage([d EXCEPT !.cipherStream = TRUE, !.decipherStream = TRUE,
                        !.sendCounter = seed],
              "Hello", TRUE, NoOne).d

handshakeResolved_RouteFirst(d, helloOk, helloId, seed, ipcOk, pendingBuffers, thr) ==
  LET d1 == [d EXCEPT !.hs = IF helloOk THEN "settled" ELSE "failed", !.id = TRUE]
  IN  IF ~helloOk THEN disconnect(d1, "failed to parse hello", thr)
      ELSE
        LET d2 == routeAll(_sendHello([d1 EXCEPT !.recieveCounter = helloId], seed),
                           pendingBuffers, thr)
            r == ready(d2, ipcOk)
        IN  IF r.threw THEN disconnect(r.d, "ready error", thr)
            ELSE [r.d EXCEPT !.reading = TRUE]

\* startHandshake once the handshake operation has resolved.  The field hs
\* becomes "failed" when the device Hello cannot be parsed, else "settled".
handshakeResolved(d, helloOk, helloId, seed, ipcOk, pendingBuffers, thr) ==
  LET d1 == [d EXCEPT !.hs = IF helloOk THEN "settled" ELSE "failed", !.id = TRUE]
  IN  IF ~helloOk THEN disconnect(d1, "failed to parse hello", thr)
      ELSE
        LET d2 == _sendHello([d1 EXCEPT !.recieveCounter = helloId], seed)
            r == ready(d2, ipcOk)
        IN  IF r.threw THEN disconnect(r.d, "ready error", thr)
            ELSE [routeAll(r.d, pendingBuffers, thr) EXCEPT !.reading = TRUE]

handshakeRejected_Swallow(d, thr) == [d EXCEPT !.hs = "failed"]

\* startHandshake once the handshake operation has rejected.
handshakeRejected(d, thr) ==
  disconnect([d EXCEPT !.hs = "failed"], "handshake error", thr)

(***************************************************************************)
(* Introspection data and the device verbs.  The field deviceFunctionState *)
(* says whether _deviceFunctionState is set, whether it has a member v,    *)
(* and the keys of v.  A DescribeReturn payload is "fv" (system            *)
(* information with the members f and v), "sys" (system information        *)
(* without them), "app" (application data with f and v) or "bad" (not      *)
(* JSON).  The field verb is the verb call in flight:                      *)
(*   kind, arg : the verb and its argument                                 *)
(*   pc     : "none", "E1" and "E2" (awaiting the first and the second     *)
(*            DescribeReturn), "reply" (awaiting the verb's response),     *)
(*            "done"                                                       *)
(*   wait   : the listener it awaits (0 for none)                          *)
(*   result : "" while in flight, "ok", or the error it rejected with      *)
(***************************************************************************)
KnownVariables == {"temp"}
KnownFunctions == {"led"}

\* Property names every object inherits from Object.prototype.
ObjectPrototypeKeys == {"toString"}

NoFunctionState == [set |-> FALSE, hasV |-> FALSE, v |-> {}, f |-> {}]

\* JSON.parse of a DescribeReturn payload, as stored in _deviceFunctionState.
FunctionStateOf(payload) ==
  IF payload \in {"fv", "app"}
    THEN [set |-> TRUE, hasV |-> TRUE, v |-> KnownVariables, f |-> KnownFunctions]
    ELSE [set |-> TRUE, hasV |-> FALSE, v |-> {}, f |-> {}]

NoVerb ==
  [kind |-> "none", arg |-> "", pc |-> "none", wait |-> 0, result |-> "",
   systemInformation |-> ""]

Locked == "This device is locked during the flashing process."

_hasFunctionState(d) == d.deviceFunctionState.set

\* _deviceFunctionState.v[name] is truthy: name is a key of v, or a property
\* the object v inherits.
_hasParticleVariable(d, name) ==
  /\ d.deviceFunctionState.set
  /\ d.deviceFunctionState.hasV
  /\ (name \in d.deviceFunctionState.v \/ name \in ObjectPrototypeKeys)

\* _transformArguments finds the function: a member of the list f (a member
\* deviceFunctionState[name] counts only if it has args, which no described
\* or inherited member has).
functionFound(d, name) ==
  /\ d.deviceFunctionState.set
  /\ name \in d.deviceFunctionState.f

verbDone(d, result) == [d EXCEPT !.verb.pc = "done", !.verb.result = result]

\* A verb sends its request and awaits the response by the token returned.
request(d, messageName, responseName) ==
  LET r == sendMessage(d, messageName, TRUE, NoOne)
      d1 == listenFor(r.d, responseName, NoUri, r.ret)
  IN  [d1 EXCEPT !.verb.pc = "reply", !.verb.wait = Len(d1.listeners)]

\* The verb once _ensureWeHaveIntrospectionData has resolved.
afterIntrospection(d) ==
  CASE d.verb.kind = "getVariableValue" ->
         IF ~_hasParticleVariable(d, d.verb.arg)
           THEN verbDone(d, "Variable not found")
           ELSE request(d, "VariableRequest", "VariableValue")
    [] d.verb.kind = "callFunction" ->
         IF ~functionFound(d, d.verb.arg)
           THEN verbDone(d, "Unknown Function")
           ELSE request(d, "FunctionCall", "FunctionReturn")
    [] OTHER -> verbDone(d, "ok")

\* The verb once _ensureWeHaveIntrospectionData has rejected.
introspectionFailed(d, error) ==
  IF d.verb.kind = "getDescription" THEN verbDone(d, "No device state!")
  ELSE verbDone(d, error)

_ensureWeHaveIntrospectionData(d) ==
  IF _hasFunctionState(d) THEN afterIntrospection(d)
  ELSE LET r == sendMessage(d, "Describe", TRUE, NoOne)
           d1 == listenFor(r.d, "DescribeReturn", NoUri, NoToken)
       IN  [d1 EXCEPT !.verb.pc = "E1", !.verb.wait = Len(d1.listeners)]

\* A verb is called: it runs up to its first await.
callVerb(d0, kind, arg) ==
  LET d == [d0 EXCEPT !.verb = [NoVerb EXCEPT !.kind = kind, !.arg = arg]]
  IN  IF kind = "getSystemInformation" THEN _ensureWeHaveIntrospectionData(d)
      ELSE IF ~_isSocketAvailable(d, NoOne) THEN verbDone(d, Locked)
      ELSE CASE kind \in {"getDescription", "getVariableValue", "callFunction"} ->
                  _ensureWeHaveIntrospectionData(d)
             [] OTHER ->
                  request(d, "SignalStart", "SignalStartReturn")

\* The error a listener rejected with.
rejection(l) == IF l.state = "timedout" THEN "Request timed out" ELSE "undefined"

\* The continuation of the verb in flight once the listener it awaits has
\* settled; it runs before any other event is handled.
resume(d) ==
  IF d.verb.pc \notin {"E1", "E2", "reply"} THEN d
  ELSE
    LET l == d.listeners[d.verb.wait]
    IN  IF l.state = "pending" THEN d
        ELSE IF l.state # "resolved"
          THEN IF d.verb.pc = "reply" THEN verbDone(d, rejection(l))
               ELSE introspectionFailed(d, rejection(l))
        ELSE IF l.payload = "bad" /\ d.verb.pc # "reply"
          THEN introspectionFailed(d, "SyntaxError")
        ELSE
          CASE d.verb.pc = "reply" -> verbDone(d, "ok")
            [] d.verb.pc = "E1" ->
                 LET d1 == listenFor(d, "DescribeReturn", NoUri, NoToken)
                 IN  IF l.payload \in {"fv", "app"}
                       THEN afterIntrospection(
                              [d1 EXCEPT !.systemInformation = l.payload,
                                         !.deviceFunctionState = FunctionStateOf(l.payload)])
                       ELSE [d1 EXCEPT !.verb.pc = "E2",
                                       !.verb.wait = Len(d1.listeners),
                                       !.verb.systemInformation = l.payload]
            [] OTHER ->
                 afterIntrospection(
                   [d EXCEPT !.systemInformation = d.verb.systemInformation,
                             !.deviceFunctionState = FunctionStateOf(l.payload)])

\* A second verb call in flight beside the first: its frame is kept in
\* verb2, and it runs as the first does, on the session with the two frames
\* exchanged.
swapVerbs(d) == [d EXCEPT !.verb = d.verb2, !.verb2 = d.verb]

inSlot(d, slot) == IF slot = 2 THEN swapVerbs(d) ELSE d

callVerbIn(d, slot, kind, arg) == inSlot(callVerb(inSlot(d, slot), kind, arg), slot)

\* The continuation of one call, handing over to the other.
resumeOne(d) == swapVerbs(resume(d))

\* When one event settles listeners of both calls, their continuations run
\* in the order of the promise jobs: the call in slot first runs first.
resumeBoth(d, first) == inSlot(resumeOne(resumeOne(inSlot(d, first))), first)

(***************************************************************************)
(* The flash verb and the OTA flasher (lib/Flasher).  The field flasher is *)
(* the flash call in flight:                                               *)
(*   pc      : "none", "begin" (awaiting UpdateReady), "chunk" (awaiting   *)
(*             ChunkReceived), "finish" (awaiting the terminal ack),       *)
(*             "done"                                                      *)
(*   k, tries : the chunk in transfer and its retransmissions so far       *)
(*   wait    : the listener it awaits (0 for none)                         *)
(*   result  : what the call returned, or the error it failed with         *)
(*   started, success, failed : history, the FlashStarted, FlashSuccess    *)
(*             and FlashFailed events the call emitted                     *)
(*   trace   : history, the Chunk frames written (<<"sent", k>>) and the   *)
(*             ChunkReceived events emitted (<<"rcvd", crc>>), in order    *)
(* The payload of a ChunkReceived is the CRC the device computed; the      *)
(* payload of an UpdateReady is "ok", or "error" for an error frame.       *)
(***************************************************************************)
\* The flasher object of the flash call, as a holder of the ownership lock.
TheFlasher == "Flasher"

\* The binary, as its fixed-size chunks.
Binary == <<"a", "b">>

\* The CRC32 of a chunk, as the flasher and the device compute it.
crc32(chunk) == "crc:" \o chunk

\* Retransmissions allowed to one chunk.
MaxRetries == 1

NoFlash ==
  [pc |-> "none", k |-> 0, tries |-> 0, wait |-> 0, result |-> "",
   started |-> 0, success |-> 0, failed |-> 0, trace |-> <<>>]

FlashInFlight(d) == d.flasher.pc \in {"begin", "chunk", "finish"}

\* flash, once the flasher has finished: FlashSuccess, 'Update finished'.
flashReturned(d) ==
  [emit(d, "flash/success", NoMsg) EXCEPT
     !.flasher.pc = "done", !.flasher.wait = 0, !.flasher.success = @ + 1,
     !.flasher.result = "Update finished"]

flashCaught_Silent(d, cause) ==
  [d EXCEPT !.flasher.pc = "done", !.flasher.wait = 0,
            !.flasher.result = "Update failed: " \o cause]

\* flash, once the flasher has failed: FlashFailed, 'Update failed: ...'.
flashCaught(d, cause) ==
  [emit(d, "flash/failed", NoMsg) EXCEPT
     !.flasher.pc = "done", !.flasher.wait = 0, !.flasher.failed = @ + 1,
     !.flasher.result = "Update failed: " \o cause]

\* The flasher ends: it releases the ownership lock and returns or fails.
flasherDone(d) == flashReturned(releaseOwnership(d, TheFlasher))
flasherFailed(d, cause) == flashCaught(releaseOwnership(d, TheFlasher), cause)

\* The flasher awaits the listener it has just created.
flasherAwaits(d, pc) ==
  [d EXCEPT !.flasher.pc = pc, !.flasher.wait = Len(d.listeners)]

\* The flasher has sent a request, with the result r: it awaits the response.
flasherSent(r, messageName, pc) ==
  IF r.threw THEN flasherFailed(r.d, "send failed")
  ELSE flasherAwaits(listenFor(r.d, getResponseType(messageName), NoUri, NoToken), pc)

\* The flasher sends a request as the lock holder and awaits its response.
flasherRequest(d, messageName, pc) ==
  flasherSent(sendMessage(d, messageName, TRUE, TheFlasher), messageName, pc)

\* History: the Chunk frame of chunk k, if the step from d to d1 wrote it.
noteChunkSent(d, d1, k) ==
  IF Len(d1.out) > Len(d.out) /\ d1.out[Len(d1.out)].name = "Chunk"
    THEN [d1 EXCEPT !.flasher.trace = Append(@, <<"sent", k>>)]
    ELSE d1

\* The flasher sends chunk k with its CRC and awaits ChunkReceived.
sendChunk(d, k, tries) ==
  noteChunkSent(d,
                flasherRequest([d EXCEPT !.flasher.k = k, !.flasher.tries = tries],
                               "Chunk", "chunk"),
                k)

\* Flasher.startFlashBuffer up to its first wait: it takes the ownership
\* lock and sends UpdateBegin.
startFlashBuffer(d) ==
  IF ~takeOwnership(d, TheFlasher).ret
    THEN flashCaught(d, "Unable to take ownership")
    ELSE flasherRequest(takeOwnership(d, TheFlasher).d, "UpdateBegin", "begin")

\* flash up to its first wait.  A call refused by the ownership gate throws
\* before anything is emitted.
flash(d) ==
  IF ~_isSocketAvailable(d, NoOne) THEN [d |-> d, threw |-> TRUE]
  ELSE [d |-> startFlashBuffer(
                emit([d EXCEPT !.flasher = [NoFlash EXCEPT !.started = 1]],
                     "flash/started", NoMsg)),
        threw |-> FALSE]

chunkMatched_AnyAck(l, chunk) == l.state = "resolved"

\* The wait for ChunkReceived ended with the CRC of the chunk.
chunkMatched(l, chunk) == l.state = "resolved" /\ l.payload = crc32(chunk)

\* The continuation of the flasher once the listener it awaits has settled.
resumeFlash(d) ==
  IF ~FlashInFlight(d) THEN d
  ELSE
    LET l == d.listeners[d.flasher.wait]
        k == d.flasher.k
    IN  IF l.state = "pending" THEN d
        ELSE IF l.state = "rejected" THEN flasherFailed(d, "undefined")
        ELSE
          CASE d.flasher.pc = "begin" ->
                 IF l.state = "resolved" /\ l.payload # "error"
                   THEN sendChunk(d, 1, 0)
                   ELSE flasherFailed(d, "UpdateBegin failed")
            [] d.flasher.pc = "chunk" ->
                 IF chunkMatched(l, Binary[k])
                   THEN IF k < Len(Binary) THEN sendChunk(d, k + 1, 0)
                        ELSE flasherRequest(d, "UpdateDone", "finish")
                 ELSE IF d.flasher.tries < MaxRetries
                   THEN sendChunk(d, k, d.flasher.tries + 1)
                 ELSE flasherFailed(d, "too many retries")
            [] OTHER ->
                 IF l.state = "resolved" THEN flasherDone(d)
                 ELSE flasherFailed(d, rejection(l))

\* History: the ChunkReceived events the last call emitted.
RECURSIVE chunksReceived(_)
chunksReceived(ev) ==
  IF ev = <<>> THEN <<>>
  ELSE (IF Head(ev).name = "ChunkReceived"
          THEN <<<<"rcvd", Head(ev).msg.payload>>>> ELSE <<>>)
       \o chunksReceived(Tail(ev))

noteChunksReceived(d) ==
  IF FlashInFlight(d)
    THEN [d EXCEPT !.flasher.trace = @ \o chunksReceived(d.ev)]
    ELSE d

(***************************************************************************)
(* DeviceServer._onDeviceSentMessage, the server's handler of the events   *)
(* the device publishes.  The field srv is the handler call in flight:     *)
(*   pc    : "none", "attrs" (awaiting the device attributes), "safemode"  *)
(*           (awaiting the DescribeReturn), "done", "failed" (it threw)    *)
(*   name  : the event name, id : the event's message-id                   *)
(*   wait  : the listener it awaits (0 for none)                           *)
(*   acked : it wrote the EventAck frame carrying id                       *)
(* and published holds the names passed to the event publisher.  Reads of  *)
(* the attribute repository succeed.                                       *)
(***************************************************************************)
EventNames ==
  {"spark/device/safemode", "spark/status", "Spark/Status", "temp", "my/sparkle"}

toLowerCase(name) == IF name = "Spark/Status" THEN "spark/status" ELSE name

\* lowerEventName.match('spark'): the name holds 'spark' somewhere.
matchSpark_Never(lowerEventName) == FALSE

matchSpark(lowerEventName) ==
  lowerEventName \in {"spark/device/safemode", "spark/status", "my/sparkle"}

\* lowerEventName.indexOf('spark/device/safemode') === 0
isSafemode(lowerEventName) == lowerEventName = "spark/device/safemode"

NoHandler == [pc |-> "none", name |-> "", id |-> 0, wait |-> 0, acked |-> FALSE]

\* From the eat-message test to the end of the handler.
eatOrPublish(d) ==
  IF matchSpark(toLowerCase(d.srv.name))
    THEN LET d1 == sendReply(d, "EventAck", d.srv.id, NoToken, NoOne)
         IN  [d1 EXCEPT !.srv.pc = "done",
                        !.srv.acked =
                          /\ Len(d1.out) = Len(d.out) + 1
                          /\ d1.out[Len(d1.out)] =
                               [name |-> "EventAck", id |-> d.srv.id,
                                token |-> NoToken]]
    ELSE [d EXCEPT !.srv.pc = "done", !.published = @ \cup {d.srv.name}]

\* The handler is called with an event the session emitted: it asks for the
\* device attributes.
_onDeviceSentMessage(d, message) ==
  [d EXCEPT !.srv = [NoHandler EXCEPT !.pc = "attrs", !.name = message.uri[2],
                                      !.id = message.id]]

\* The handler once the device attributes have arrived.
attributesArrived(d) ==
  IF isSafemode(toLowerCase(d.srv.name))
    THEN LET r == sendMessage(d, "Describe", TRUE, NoOne)
             d1 == listenFor(r.d, "DescribeReturn", NoUri, r.ret)
         IN  [d1 EXCEPT !.srv.pc = "safemode", !.srv.wait = Len(d1.listeners)]
    ELSE eatOrPublish(d)

\* The server's listener of the event the last call emitted, if any.
serverListeners(d) ==
  IF /\ d.serverAttached
     /\ \E i \in DOMAIN d.ev : d.ev[i].name \in {"PublicEvent", "PrivateEvent"}
    THEN LET i == CHOOSE j \in DOMAIN d.ev : d.ev[j].name \in {"PublicEvent", "PrivateEvent"}
         IN  _onDeviceSentMessage(d, d.ev[i].msg)
    ELSE d

\* The continuation of the handler once the listener it awaits has settled.
resumeHandler(d) ==
  IF d.srv.pc # "safemode" THEN d
  ELSE LET l == d.listeners[d.srv.wait]
       IN  IF l.state = "pending" THEN d
           ELSE IF l.state = "resolved" THEN eatOrPublish(d)
           ELSE [d EXCEPT !.srv.pc = "failed"]

(***************************************************************************)
(* DeviceServer's registry of sessions by device ID and the subscriptions  *)
(* it registers.  The connections are those of one device: dev is one      *)
(* connection and dev.peer the latest other connection of the same device  *)
(* (NoPeer until one is accepted).  In dev,                                *)
(*   devicesById   : the session _devicesById maps the device ID to,       *)
(*                   "none", "this" (dev) or "peer"                        *)
(*   subscriptions : the subscriptions the event publisher holds with the  *)
(*                   device ID as subscriber, each with the session whose  *)
(*                   onCoreEvent it calls                                  *)
(*   statusEvents  : the particle/status events published                  *)
(*   sub           : the _onDeviceSubscribe call that awaits the device    *)
(*                   attributes                                            *)
(*   connections   : history, the other connections accepted               *)
(* Reads of the attribute repository succeed.                              *)
(***************************************************************************)
NoPeer ==
  [hs |-> "none", id |-> FALSE, readyEmits |-> 0, disconnectCounter |-> 0,
   serverAttached |-> FALSE]

NoSubscribe == [pc |-> "none", name |-> "", id |-> 0]

Sessions == {"this", "peer"}

session(D, s) == IF s = "peer" THEN D.peer ELSE D

\* EventPublisher.unsubscribeBySubscriberID(deviceID)
unsubscribeBySubscriberID(D) == [D EXCEPT !.subscriptions = {}]

\* EventPublisher.subscribe(messageName, device.onCoreEvent, filter, deviceID)
subscribe(D, messageName, s) ==
  [D EXCEPT !.subscriptions = @ \cup {[name |-> messageName, session |-> s]}]

publishSpecialEvent(D, data) == [D EXCEPT !.statusEvents = Append(@, data)]

\* The server's listener of the session's DISCONNECT event.  The device ID
\* of a session is '' until its handshake has resolved.
_onDeviceDisconnect(D, s) ==
  IF session(D, s).id /\ D.devicesById # "none"
    THEN publishSpecialEvent(
           unsubscribeBySubscriberID([D EXCEPT !.devicesById = "none"]),
           "offline")
    ELSE D

\* disconnect(message) of the session s, with the server's listener of the
\* DISCONNECT event it emits.
disconnectSession(D, s, message) ==
  LET D1 == IF s = "peer"
              THEN [D EXCEPT !.peer = disconnect(@, message, NoThrow)]
              ELSE disconnect(D, message, NoThrow)
  IN  IF session(D, s).serverAttached /\ session(D, s).disconnectCounter = 0
        THEN _onDeviceDisconnect(D1, s)
        ELSE D1

\* The server's listener of the session's READY event.
_onDeviceReady(D, s) ==
  publishSpecialEvent(
    [(IF D.devicesById # "none"
        THEN disconnectSession(D, D.devicesById,
                               "Device was already connected. Reconnecting.")
        ELSE D) EXCEPT !.devicesById = s],
    "online")

\* The server's listeners of the READY and DISCONNECT events the last call of
\* the session s emitted; attached says whether the listeners were attached
\* when the call began.  A call emits READY before DISCONNECT.
serverLifecycle(D, s, attached) ==
  IF ~attached THEN D
  ELSE IF \E i \in DOMAIN session(D, s).ev : session(D, s).ev[i].name = "ready"
    THEN _onDeviceReady(D, s)
  ELSE IF \E i \in DOMAIN session(D, s).ev : session(D, s).ev[i].name = "disconnect"
    THEN _onDeviceDisconnect(D, s)
  ELSE D

\* The server's listener of the Subscribe messages of dev; isFromMyDevices
\* says whether the URI query of the message holds 'u'.
_onDeviceSubscribe(D, message, isFromMyDevices) ==
  IF Len(message.uri) < 2
    THEN sendReply(D, "SubscribeFail", message.id, NoToken, NoOne)
  ELSE IF isFromMyDevices
    THEN [D EXCEPT !.sub = [pc |-> "attrs", name |-> message.uri[2],
                            id |-> message.id]]
  ELSE sendReply(subscribe(D, message.uri[2], "this"),
                 "SubscribeAck", message.id, NoToken, NoOne)

\* _onDeviceSubscribe once the device attributes have arrived.
subscribeAttributesArrived(D) ==
  [sendReply(subscribe(D, D.sub.name, "this"),
             "SubscribeAck", D.sub.id, NoToken, NoOne)
     EXCEPT !.sub = NoSubscribe]

subscribeListeners(D, isFromMyDevices) ==
  IF /\ D.serverAttached
     /\ \E i \in DOMAIN D.ev : D.ev[i].name = "Subscribe"
    THEN _onDeviceSubscribe(
           D, D.ev[CHOOSE j \in DOMAIN D.ev : D.ev[j].name = "Subscribe"].msg,
           isFromMyDevices)
    ELSE D

(***************************************************************************)
(* The state: dev is the session; last is the last top-level call (its     *)
(* name, inputs, result and the session before it); calls counts the calls *)
(* that the bounds limit.  In dev, the fields out and ev hold the frames   *)
(* written and the events emitted by the last top-level call, and rx,      *)
(* socketEnds, socketDestroys, disconnectEmits, disconnectReason,          *)
(* readyEmits, allocated and live are history.                             *)
(***************************************************************************)
NewDevice ==
  [hs |-> "idle", id |-> FALSE,
   cipherStream |-> FALSE, decipherStream |-> FALSE, reading |-> FALSE,
   sendCounter |-> 0, recieveCounter |-> 0, sendToken |-> 0, tokens |-> {},
   owningFlasher |-> NoOne, lastCorePing |-> 0, disconnectCounter |-> 0,
   connectionStartTime |-> FALSE, listeners |-> <<>>, serverAttached |-> TRUE,
   out |-> <<>>, ev |-> <<>>, rx |-> 0,
   socketEnds |-> 0, socketDestroys |-> 0,
   disconnectEmits |-> 0, disconnectReason |-> "", readyEmits |-> 0,
   allocated |-> {}, live |-> {},
   deviceFunctionState |-> NoFunctionState, systemInformation |-> "",
   verb |-> NoVerb, verb2 |-> NoVerb, flasher |-> NoFlash, srv |-> NoHandler, published |-> {},
   devicesById |-> "none", peer |-> NoPeer, subscriptions |-> {},
   statusEvents |-> <<>>, sub |-> NoSubscribe, connections |-> 0]

\* What last keeps of the session before the call.
Pre(d) ==
  [sendCounter |-> d.sendCounter, recieveCounter |-> d.recieveCounter,
   sendToken |-> d.sendToken, tokens |-> d.tokens,
   owningFlasher |-> d.owningFlasher, cipherStream |-> d.cipherStream,
   disconnectCounter |-> d.disconnectCounter, readyEmits |-> d.readyEmits,
   lastCorePing |-> d.lastCorePing, live |-> d.live, flasher |-> d.flasher,
   verb |-> d.verb]

Call(op, name, requester, msg, ret, threw, d) ==
  [op |-> op, name |-> name, requester |-> requester, msg |-> msg,
   ret |-> ret, threw |-> threw, pre |-> Pre(d)]

Init ==
  /\ dev = NewDevice
  /\ last = Call("new", "", NoOne, NoMsg, 0, FALSE, NewDevice)
  /\ calls = [send |-> 0, verb |-> 0, flash |-> 0, reply |-> 0]

\* A top-level call starts with nothing written and nothing emitted.
Begin(d) == [d EXCEPT !.out = <<>>, !.ev = <<>>]

\* The teardown calls can raise only where the teardown runs.
ThrowsAt(d) == IF d.disconnectCounter = 0 THEN Throws ELSE {NoThrow}

HelloIds == {65534}
SendNames == {"Describe", "PublicEvent"}
ListenNames == {"DescribeReturn"}
ListenUris == {NoUri}
DisconnectReasons == {"socket close"}

\* The frames a device may send when the session expects id rc + 1 and has
\* last allocated the token tok.
Inbound(rc, tok) ==
  {Garbage} \cup
  {m \in [type : {"CON", "NON", "ACK"}, code : {"EMPTY", "REQ", "RESP"},
          id : {_increment(rc, COUNTER_MAX),
                _increment(_increment(rc, COUNTER_MAX), COUNTER_MAX)},
          token : {NoToken, tok},
          reqName : {"", "Ignored", "PublicEvent"},
          uri : {<<"d">>}, payload : {""}] :
     /\ (m.code # "REQ" => m.reqName = "")
     /\ (m.code = "REQ" => m.reqName # "" /\ m.type = "CON" /\ m.token = NoToken)
     /\ (m.code = "EMPTY" => m.token = NoToken)
     /\ (m.type = "NON" => m.code = "EMPTY")}

PendingBuffers(rc) ==
  {<<>>} \cup
  (IF MaxPending >= 1 THEN {<<m>> : m \in Inbound(rc, 0)} ELSE {}) \cup
  (IF MaxPending >= 2
     THEN {<<m, n>> : m \in Inbound(rc, 0), n \in Inbound(rc, 0)}
     ELSE {})

startupProtocol ==
  /\ dev.hs = "idle"
  /\ dev' = [Begin(dev) EXCEPT !.hs = "pending"]
  /\ last' = Call("startupProtocol", "", NoOne, NoMsg, 0, FALSE, dev)
  /\ UNCHANGED calls

\* What last.name keeps of a resolved handshake's inputs.
HandshakeCase(helloOk, ipcOk) ==
  IF ~helloOk THEN "hello unparsable"
  ELSE IF ~ipcOk THEN "ipc failure"
  ELSE ""

\* The handshake operation resolves; ipcOks says whether the cluster-routing
\* emission may raise, throws which teardown calls may.
HandshakeResolveOf(ipcOks, throws) ==
  /\ dev.hs = "pending"
  /\ \E helloOk \in BOOLEAN, helloId \in HelloIds, seed \in getRandomUINT16,
        ipcOk \in ipcOks, thr \in ThrowsAt(dev) \cap throws :
       \E pendingBuffers \in PendingBuffers(helloId) :
         /\ dev' = handshakeResolved(Begin(dev), helloOk, helloId, seed, ipcOk,
                                     pendingBuffers, thr)
         /\ last' = Call("handshakeResolved", HandshakeCase(helloOk, ipcOk), NoOne,
                         NoMsg, seed, FALSE, dev)
  /\ UNCHANGED calls

HandshakeResolve == HandshakeResolveOf(BOOLEAN, Throws)

HandshakeReject ==
  /\ dev.hs = "pending"
  /\ \E thr \in ThrowsAt(dev) : dev' = handshakeRejected(Begin(dev), thr)
  /\ last' = Call("handshakeRejected", "", NoOne, NoMsg, 0, FALSE, dev)
  /\ UNCHANGED calls

\* disconnect called by a socket handler (error, close, timeout) or by the
\* registry.
DisconnectOf(throws) ==
  /\ dev.hs # "idle"
  /\ dev.disconnectCounter < MaxDisconnects
  /\ \E reason \in DisconnectReasons, thr \in ThrowsAt(dev) \cap throws :
       /\ dev' = disconnect(Begin(dev), reason, thr)
       /\ last' = Call("disconnect", reason, NoOne, NoMsg, 0, FALSE, dev)
  /\ UNCHANGED calls

Disconnect == DisconnectOf(Throws)

SendMessageOf(names, oks, requesters, maxSends) ==
  /\ calls.send < maxSends
  /\ \E messageName \in names, paramsOk \in oks, requester \in requesters :
       LET r == sendMessage(Begin(dev), messageName, paramsOk, requester)
       IN  /\ dev' = r.d
           /\ last' = Call("sendMessage", messageName, requester, NoMsg,
                           r.ret, r.threw, dev)
  /\ calls' = [calls EXCEPT !.send = @ + 1]

SendMessage == SendMessageOf(SendNames, BOOLEAN, Requesters, MaxSends)

\* The decipher stream's readable handler.
InboundFrameOf(throws) ==
  /\ dev.reading
  /\ dev.rx < MaxInbound
  /\ \E data \in Inbound(dev.recieveCounter, dev.sendToken),
        thr \in ThrowsAt(dev) \cap throws :
       /\ dev' = routeMessage(Begin(dev), data, thr)
       /\ last' = Call("routeMessage", "", NoOne, data, 0, FALSE, dev)
  /\ UNCHANGED calls

InboundFrame == InboundFrameOf(Throws)

ListenFor ==
  /\ Len(dev.listeners) < MaxListeners
  /\ \E eventName \in ListenNames, uri \in ListenUris, token \in {0, dev.sendToken} :
       /\ dev' = listenFor(Begin(dev), eventName, uri, token)
       /\ last' = Call("listenFor", eventName, NoOne, NoMsg, token, FALSE, dev)
  /\ UNCHANGED calls

\* The timeout interval of listener i elapses: its timer, unless cleared,
\* runs the timeout callback.
timeElapses(d, i) ==
  [d EXCEPT !.listeners[i] =
     LET l == [@ EXCEPT !.expired = TRUE]
     IN  IF l.timer = "armed" THEN timeoutCallback(l) ELSE l]

TimeElapses ==
  /\ \E i \in DOMAIN dev.listeners :
       /\ ~dev.listeners[i].expired
       /\ dev' = timeElapses(Begin(dev), i)
  /\ last' = Call("timeout", "", NoOne, NoMsg, 0, FALSE, dev)
  /\ UNCHANGED calls

TakeOwnership ==
  /\ \E flasher \in Flashers :
       LET r == takeOwnership(Begin(dev), flasher)
       IN  /\ dev' = r.d
           /\ last' = Call("takeOwnership", "", flasher, NoMsg,
                           IF r.ret THEN 1 ELSE 0, FALSE, dev)
  /\ UNCHANGED calls

ReleaseOwnership ==
  /\ \E flasher \in Flashers :
       /\ dev' = releaseOwnership(Begin(dev), flasher)
       /\ last' = Call("releaseOwnership", "", flasher, NoMsg, 0, FALSE, dev)
  /\ UNCHANGED calls

(***************************************************************************)
(* Spec: the session's transport.  The handshake, the send and receive     *)
(* paths, the ownership lock and teardown, with every teardown call free   *)
(* to raise.  Listeners only read what the transport emits, so they are    *)
(* left to SpecListeners.                                                  *)
(***************************************************************************)
Next ==
  \/ startupProtocol
  \/ HandshakeResolve
  \/ HandshakeReject
  \/ Disconnect
  \/ SendMessage
  \/ InboundFrame
  \/ TakeOwnership
  \/ ReleaseOwnership

Spec == Init /\ [][Next]_vars

(***************************************************************************)
(* SpecListeners: the listener facility over the transport.  Requests are  *)
(* sent by the session itself and the teardown calls do not raise.         *)
(***************************************************************************)
ListenerHandshake == HandshakeResolveOf({TRUE}, {NoThrow})
ListenerDisconnect == DisconnectOf({NoThrow})
ListenerSend == SendMessageOf({"Describe"}, {TRUE}, {NoOne}, MaxSends)
ListenerInbound == InboundFrameOf({NoThrow})

NextListeners ==
  \/ startupProtocol
  \/ ListenerHandshake
  \/ ListenerDisconnect
  \/ ListenerSend
  \/ ListenerInbound
  \/ ListenFor
  \/ TimeElapses

SpecListeners == Init /\ [][NextListeners]_vars

(***************************************************************************)
(* SpecLong: a long-lived session that keeps sending Describe requests,    *)
(* far enough for the token allocator to wrap around.                      *)
(***************************************************************************)
LongHandshake ==
  /\ dev.hs = "pending"
  /\ \E helloId \in HelloIds, seed \in getRandomUINT16 :
       /\ dev' = handshakeResolved(Begin(dev), TRUE, helloId, seed, TRUE, <<>>, NoThrow)
       /\ last' = Call("handshakeResolved", "", NoOne, NoMsg, seed, FALSE, dev)
  /\ UNCHANGED calls

LongSend ==
  /\ dev.cipherStream
  /\ SendMessageOf({"Describe"}, {TRUE}, {NoOne}, LongSends)

\* The device answers one of its first requests: a piggybacked response
\* carrying the token of the last request, or the token after it.
LongInboundFrame ==
  /\ dev.reading
  /\ dev.rx < LongInbound
  /\ calls.send <= LongAnswers
  /\ \E token \in {dev.sendToken, (dev.sendToken + 1) % TOKEN_COUNTER_MAX} :
       LET data == [type |-> "ACK", code |-> "RESP", id |-> dev.sendCounter,
                    token |-> token, reqName |-> "", uri |-> <<"d">>,
                    payload |-> ""]
       IN  /\ dev' = routeMessage(Begin(dev), data, NoThrow)
           /\ last' = Call("routeMessage", "", NoOne, data, 0, FALSE, dev)
  /\ UNCHANGED calls

NextLong ==
  \/ startupProtocol
  \/ LongHandshake
  \/ LongSend
  \/ LongInboundFrame

SpecLong == Init /\ [][NextLong]_vars

(***************************************************************************)
(* SpecFilter: listeners with and without a URI prefix and a token, and    *)
(* responses of the device that match some of them and not others.         *)
(***************************************************************************)
MaxFilterListeners == 2
MaxFilterInbound == 2
FilterNames == {"DescribeReturn"}
FilterUris == {NoUri, <<"d">>}
FilterPaths == {<<"d">>, <<"d", "x">>, <<"v">>}

FilterListenFor ==
  /\ Len(dev.listeners) < MaxFilterListeners
  /\ \E eventName \in FilterNames, uri \in FilterUris,
        token \in {NoToken, dev.sendToken} :
       /\ dev' = listenFor(Begin(dev), eventName, uri, token)
       /\ last' = Call("listenFor", eventName, NoOne, NoMsg, token, FALSE, dev)
  /\ UNCHANGED calls

FilterInbound ==
  /\ dev.reading
  /\ dev.rx < MaxFilterInbound
  /\ \E token \in {NoToken, dev.sendToken,
                     (dev.sendToken + TOKEN_COUNTER_MAX - 1) % TOKEN_COUNTER_MAX},
        uri \in FilterPaths, payload \in {"", "fv"} :
       LET data == [type |-> "ACK", code |-> "RESP", id |-> dev.sendCounter,
                    token |-> token, reqName |-> "", uri |-> uri,
                    payload |-> payload]
       IN  /\ dev' = routeMessage(Begin(dev), data, NoThrow)
           /\ last' = Call("routeMessage", "", NoOne, data, 0, FALSE, dev)
  /\ UNCHANGED calls

FilterSend ==
  /\ dev.cipherStream
  /\ SendMessageOf({"Describe"}, {TRUE}, {NoOne}, MaxSends)

NextFilter ==
  \/ startupProtocol
  \/ LongHandshake
  \/ FilterSend
  \/ FilterListenFor
  \/ FilterInbound
  \/ TimeElapses

SpecFilter == Init /\ [][NextFilter]_vars

(***************************************************************************)
(* SpecVerbs: the device verbs on a session whose handshake succeeded.     *)
(* One verb is in flight at a time; the device answers with piggybacked    *)
(* responses.  The continuation of a verb runs in the action that settles  *)
(* the listener it awaits.                                                 *)
(***************************************************************************)
VerbCalls ==
  {<<"getDescription", "">>, <<"getSystemInformation", "">>,
   <<"raiseYourHand", "">>,
   <<"callFunction", "led">>, <<"callFunction", "nope">>,
   <<"getVariableValue", "temp">>, <<"getVariableValue", "nope">>,
   <<"getVariableValue", "toString">>}

DescribePayloads == {"fv", "sys", "app", "bad"}

VerbCall ==
  /\ dev.verb.pc \in {"none", "done"}
  /\ calls.verb < MaxVerbs
  /\ \E v \in VerbCalls :
       /\ dev' = callVerb(Begin(dev), v[1], v[2])
       /\ last' = Call("verb", v[1], NoOne, NoMsg, 0, FALSE, dev)
  /\ calls' = [calls EXCEPT !.verb = @ + 1]

VerbInbound ==
  /\ dev.reading
  /\ dev.rx < MaxVerbInbound
  /\ \E token \in dev.allocated, payload \in DescribePayloads :
       LET data == [type |-> "ACK", code |-> "RESP", id |-> dev.sendCounter,
                    token |-> token, reqName |-> "", uri |-> <<"d">>,
                    payload |-> payload]
       IN  /\ dev' = resume(routeMessage(Begin(dev), data, NoThrow))
           /\ last' = Call("routeMessage", "", NoOne, data, 0, FALSE, dev)
  /\ UNCHANGED calls

VerbTimeElapses ==
  /\ \E i \in DOMAIN dev.listeners :
       /\ ~dev.listeners[i].expired
       /\ dev' = resume(timeElapses(Begin(dev), i))
  /\ last' = Call("timeout", "", NoOne, NoMsg, 0, FALSE, dev)
  /\ UNCHANGED calls

VerbDisconnect ==
  /\ dev.hs # "idle"
  /\ dev.disconnectCounter = 0
  /\ \E reason \in DisconnectReasons :
       /\ dev' = resume(disconnect(Begin(dev), reason, NoThrow))
       /\ last' = Call("disconnect", reason, NoOne, NoMsg, 0, FALSE, dev)
  /\ UNCHANGED calls

NextVerbs ==
  \/ startupProtocol
  \/ LongHandshake
  \/ VerbCall
  \/ VerbInbound
  \/ VerbTimeElapses
  \/ VerbDisconnect
  \/ TakeOwnership
  \/ ReleaseOwnership

SpecVerbs == Init /\ [][NextVerbs]_vars

(***************************************************************************)
(* SpecDescribe: two verb calls in flight at once on a ready session, each *)
(* fetching the introspection data it finds missing.                       *)
(***************************************************************************)
MaxDescribeInbound == 3
DescribeCalls == {"getDescription", "getSystemInformation"}

DescribeCall ==
  /\ dev.cipherStream
  /\ \E kind \in DescribeCalls, slot \in {1, 2} :
       /\ inSlot(dev, slot).verb.pc = "none"
       /\ dev' = callVerbIn(Begin(dev), slot, kind, "")
       /\ last' = Call("verb", kind, NoOne, NoMsg, slot, FALSE, dev)
  /\ UNCHANGED calls

DescribeInbound ==
  /\ dev.reading
  /\ dev.rx < MaxDescribeInbound
  /\ \E token \in dev.allocated, payload \in {"sys", "app", "fv"}, first \in {1, 2} :
       LET data == [type |-> "ACK", code |-> "RESP", id |-> dev.sendCounter,
                    token |-> token, reqName |-> "", uri |-> <<"d">>,
                    payload |-> payload]
       IN  /\ dev' = resumeBoth(routeMessage(Begin(dev), data, NoThrow), first)
           /\ last' = Call("routeMessage", "", NoOne, data, 0, FALSE, dev)
  /\ UNCHANGED calls

NextDescribe ==
  \/ startupProtocol
  \/ LongHandshake
  \/ DescribeCall
  \/ DescribeInbound

SpecDescribe == Init /\ [][NextDescribe]_vars

(***************************************************************************)
(* SpecFlash: the flash verb on a session whose handshake succeeded.  The  *)
(* device answers the last request or the one before it; a verb may be     *)
(* called before, during and after the flash.                              *)
(***************************************************************************)
MaxFlashes == 2
MaxFlashInbound == 5

\* What the device answers to a request.
FlashPayloads(requestName) ==
  CASE requestName = "UpdateBegin" -> {"ok", "error"}
    [] requestName = "Chunk" -> {crc32(Binary[k]) : k \in DOMAIN Binary}
    [] OTHER -> {"ok"}

FlashCall ==
  /\ calls.flash < MaxFlashes
  /\ dev' = flash(Begin(dev)).d
  /\ last' = Call("flash", "", NoOne, NoMsg, 0, ~_isSocketAvailable(dev, NoOne), dev)
  /\ calls' = [calls EXCEPT !.flash = @ + 1]

FlashVerbCall ==
  /\ dev.verb.pc \in {"none", "done"}
  /\ calls.verb < MaxVerbs
  /\ dev' = callVerb(Begin(dev), "raiseYourHand", "")
  /\ last' = Call("verb", "raiseYourHand", NoOne, NoMsg, 0, FALSE, dev)
  /\ calls' = [calls EXCEPT !.verb = @ + 1]

FlashInbound ==
  /\ dev.reading
  /\ dev.rx < MaxFlashInbound
  /\ \E e \in dev.live :
       /\ e.token \in {dev.sendToken, (dev.sendToken + TOKEN_COUNTER_MAX - 1) % TOKEN_COUNTER_MAX}
       /\ \E payload \in FlashPayloads(e.name) :
            LET data == [type |-> "ACK", code |-> "RESP", id |-> dev.sendCounter,
                         token |-> e.token, reqName |-> "", uri |-> <<"d">>,
                         payload |-> payload]
            IN  /\ dev' = resumeFlash(resume(noteChunksReceived(
                            routeMessage(Begin(dev), data, NoThrow))))
                /\ last' = Call("routeMessage", "", NoOne, data, 0, FALSE, dev)
  /\ UNCHANGED calls

FlashTimeElapses ==
  /\ \E i \in DOMAIN dev.listeners :
       /\ ~dev.listeners[i].expired
       /\ dev.listeners[i].attached
       /\ dev' = resumeFlash(resume(timeElapses(Begin(dev), i)))
  /\ last' = Call("timeout", "", NoOne, NoMsg, 0, FALSE, dev)
  /\ UNCHANGED calls

FlashDisconnect ==
  /\ dev.hs # "idle"
  /\ dev.disconnectCounter = 0
  /\ \E reason \in DisconnectReasons :
       /\ dev' = resumeFlash(resume(disconnect(Begin(dev), reason, NoThrow)))
       /\ last' = Call("disconnect", reason, NoOne, NoMsg, 0, FALSE, dev)
  /\ UNCHANGED calls

NextFlash ==
  \/ startupProtocol
  \/ LongHandshake
  \/ FlashCall
  \/ FlashVerbCall
  \/ FlashInbound
  \/ FlashTimeElapses
  \/ FlashDisconnect

SpecFlash == Init /\ [][NextFlash]_vars

(***************************************************************************)
(* SpecReply: the reply path beside the send and receive paths, on a       *)
(* session whose handshake succeeded, with the ownership lock taken and    *)
(* released.                                                               *)
(***************************************************************************)
MaxReplies == 2

ReplyNames == {"EventAck", "NoSuchMessage"}
ReplyIds == {-1, 7}
ReplyTokens == {NoToken, 5}

SendReply ==
  /\ calls.reply < MaxReplies
  /\ \E messageName \in ReplyNames, id \in ReplyIds, token \in ReplyTokens,
        requester \in Requesters :
       /\ dev' = sendReply(Begin(dev), messageName, id, token, requester)
       /\ last' = Call("sendReply", messageName, requester,
                       [NoMsg EXCEPT !.id = id, !.token = token], 0, FALSE, dev)
  /\ calls' = [calls EXCEPT !.reply = @ + 1]

ReplySend == SendMessageOf({"Describe"}, {TRUE}, Requesters, MaxSends)

NextReply ==
  \/ startupProtocol
  \/ LongHandshake
  \/ SendReply
  \/ ReplySend
  \/ ListenerInbound
  \/ ListenerDisconnect
  \/ TakeOwnership
  \/ ReleaseOwnership

SpecReply == Init /\ [][NextReply]_vars

(***************************************************************************)
(* SpecServer: the server's handling of the events a ready device          *)
(* publishes, one handler call at a time.                                  *)
(***************************************************************************)
\* The frames of the device: an event, or a piggybacked response to a
\* request the session sent.
ServerFrames(d) ==
  {[type |-> "CON", code |-> "REQ", id |-> _increment(d.recieveCounter, COUNTER_MAX),
    token |-> NoToken, reqName |-> "PublicEvent", uri |-> <<"e", name>>,
    payload |-> ""] : name \in IF d.srv.pc \in {"none", "done", "failed"}
                                 THEN EventNames ELSE {}}
  \cup
  {[type |-> "ACK", code |-> "RESP", id |-> d.sendCounter, token |-> token,
    reqName |-> "", uri |-> <<"d">>, payload |-> "fv"] : token \in d.allocated}

ServerInbound ==
  /\ dev.reading
  /\ dev.rx < MaxServerInbound
  /\ \E data \in ServerFrames(dev) :
       /\ dev' = resumeHandler(serverListeners(routeMessage(Begin(dev), data, NoThrow)))
       /\ last' = Call("routeMessage", "", NoOne, data, 0, FALSE, dev)
  /\ UNCHANGED calls

ServerAttributes ==
  /\ dev.srv.pc = "attrs"
  /\ dev' = attributesArrived(Begin(dev))
  /\ last' = Call("attributesArrived", dev.srv.name, NoOne, NoMsg, 0, FALSE, dev)
  /\ UNCHANGED calls

ServerTimeElapses ==
  /\ \E i \in DOMAIN dev.listeners :
       /\ ~dev.listeners[i].expired
       /\ dev' = resumeHandler(timeElapses(Begin(dev), i))
  /\ last' = Call("timeout", "", NoOne, NoMsg, 0, FALSE, dev)
  /\ UNCHANGED calls

ServerDisconnect ==
  /\ dev.hs # "idle"
  /\ dev.disconnectCounter = 0
  /\ \E reason \in DisconnectReasons :
       /\ dev' = resumeHandler(disconnect(Begin(dev), reason, NoThrow))
       /\ last' = Call("disconnect", reason, NoOne, NoMsg, 0, FALSE, dev)
  /\ UNCHANGED calls

NextServer ==
  \/ startupProtocol
  \/ LongHandshake
  \/ ServerInbound
  \/ ServerAttributes
  \/ ServerTimeElapses
  \/ ServerDisconnect
  \/ TakeOwnership
  \/ ReleaseOwnership

SpecServer == Init /\ [][NextServer]_vars

(***************************************************************************)
(* SpecRegistry: the server's registry while the device reconnects: the    *)
(* connection dev, the other connections of the same device one after the  *)
(* other, and the Subscribe requests of dev.                               *)
(***************************************************************************)
MaxConnections == 2
MaxRegistryInbound == 2
SubscribeNames == {"temp"}

BeginAll(D) == [Begin(D) EXCEPT !.peer = IF @.hs = "none" THEN @ ELSE Begin(@)]

RegistryHandshake ==
  /\ dev.hs = "pending"
  /\ \E helloOk \in BOOLEAN, helloId \in HelloIds, seed \in getRandomUINT16 :
       /\ dev' = serverLifecycle(
                   handshakeResolved(BeginAll(dev), helloOk, helloId, seed,
                                     TRUE, <<>>, NoThrow),
                   "this", dev.serverAttached)
       /\ last' = Call("handshakeResolved", HandshakeCase(helloOk, TRUE),
                       NoOne, NoMsg, seed, FALSE, dev)
  /\ UNCHANGED calls

\* _onNewSocketConnection: another connection of the device is accepted and
\* its startupProtocol called.
PeerConnect ==
  /\ dev.hs # "idle"
  /\ dev.peer.hs = "none" \/ dev.peer.disconnectCounter > 0
  /\ dev.connections < MaxConnections
  /\ dev' = [BeginAll(dev) EXCEPT !.peer = [NewDevice EXCEPT !.hs = "pending"],
                                  !.connections = @ + 1]
  /\ last' = Call("startupProtocol", "peer", NoOne, NoMsg, 0, FALSE, dev)
  /\ UNCHANGED calls

PeerHandshake ==
  /\ dev.peer.hs = "pending"
  /\ \E helloOk \in BOOLEAN, helloId \in HelloIds, seed \in getRandomUINT16 :
       /\ dev' = serverLifecycle(
                   [BeginAll(dev) EXCEPT
                      !.peer = handshakeResolved(@, helloOk, helloId, seed,
                                                 TRUE, <<>>, NoThrow)],
                   "peer", dev.peer.serverAttached)
       /\ last' = Call("handshakeResolved", "peer", NoOne, NoMsg, seed, FALSE, dev)
  /\ UNCHANGED calls

\* The socket of a connection closes.
RegistryDisconnect ==
  /\ \E s \in Sessions, reason \in DisconnectReasons :
       /\ session(dev, s).hs \notin {"none", "idle"}
       /\ session(dev, s).disconnectCounter = 0
       /\ dev' = disconnectSession(BeginAll(dev), s, reason)
       /\ last' = Call("disconnect", s, NoOne, NoMsg, 0, FALSE, dev)
  /\ UNCHANGED calls

\* The device asks to subscribe to events.
RegistryInbound ==
  /\ dev.reading
  /\ dev.rx < MaxRegistryInbound
  /\ \E name \in SubscribeNames,
        isFromMyDevices \in IF dev.sub.pc = "none" THEN BOOLEAN ELSE {FALSE} :
       LET data == [type |-> "CON", code |-> "REQ",
                    id |-> _increment(dev.recieveCounter, COUNTER_MAX),
                    token |-> NoToken, reqName |-> "Subscribe",
                    uri |-> <<"e", name>>, payload |-> ""]
       IN  /\ dev' = subscribeListeners(routeMessage(BeginAll(dev), data, NoThrow),
                                        isFromMyDevices)
           /\ last' = Call("routeMessage", IF isFromMyDevices THEN "u" ELSE "",
                           NoOne, data, 0, FALSE, dev)
  /\ UNCHANGED calls

RegistryAttributes ==
  /\ dev.sub.pc = "attrs"
  /\ dev' = subscribeAttributesArrived(BeginAll(dev))
  /\ last' = Call("subscribeAttributesArrived", dev.sub.name, NoOne, NoMsg, 0, FALSE, dev)
  /\ UNCHANGED calls

NextRegistry ==
  \/ startupProtocol
  \/ RegistryHandshake
  \/ PeerConnect
  \/ PeerHandshake
  \/ RegistryDisconnect
  \/ RegistryInbound
  \/ RegistryAttributes

SpecRegistry == Init /\ [][NextRegistry]_vars

(***************************************************************************)
(* The claims.                                                             *)
(***************************************************************************)
Keys(tokens) == {e.key : e \in tokens}

\* The message was emitted to listeners by the last call.
Emitted(message) ==
  \E i \in DOMAIN dev.ev : dev.ev[i].name # "disconnect" /\ dev.ev[i].msg = message

EmittedAs(eventName, message) ==
  \E i \in DOMAIN dev.ev : dev.ev[i].name = eventName /\ dev.ev[i].msg = message

\* C1: while the ownership lock is held by a flasher F, every sendMessage
\* call whose requester is not F returns -1, writes no frame and leaves
\* sendCounter, sendToken and pendingTokens (the whole session) unchanged.
\* Stated of the last call, and of every call that could be made in the
\* current state.
C1_LockRefusesSend ==
  /\ (/\ last.op = "sendMessage"
      /\ last.pre.owningFlasher # NoOne
      /\ last.requester # last.pre.owningFlasher)
       => /\ last.ret = -1
          /\ ~last.threw
          /\ dev.out = <<>>
          /\ dev.sendCounter = last.pre.sendCounter
          /\ dev.sendToken = last.pre.sendToken
          /\ dev.tokens = last.pre.tokens
  /\ \A messageName \in MessageNames, paramsOk \in BOOLEAN,
        requester \in Requesters \cup {"F2"} :
       (dev.owningFlasher # NoOne /\ requester # dev.owningFlasher)
         => LET r == sendMessage(dev, messageName, paramsOk, requester)
            IN  r.ret = -1 /\ ~r.threw /\ r.d = dev

C1_Witness ==
  /\ last.op = "sendMessage"
  /\ last.pre.owningFlasher = "F1"
  /\ last.requester = NoOne
  /\ last.pre.cipherStream
  /\ last.ret = -1

\* C2: after any number N >= 1 of disconnect calls, whatever the teardown
\* calls raise, exactly one Disconnect event has been emitted and the socket
\* has been ended and destroyed exactly once.
C2_DisconnectOnce ==
  dev.disconnectCounter >= 1
    => /\ dev.disconnectEmits = 1
       /\ dev.socketEnds = 1
       /\ dev.socketDestroys = 1

\* C3: an inbound non-ack, non-empty message advances receiveCounter by one;
\* it is emitted only if its id equals the advanced counter; otherwise it is
\* not emitted and disconnect is called, which on a session not yet
\* disconnected emits Disconnect with reason "Got an Ignore" for an Ignored
\* message and "Bad Counter" for any other.
C3_CounterCheck ==
  (/\ last.op = "routeMessage"
   /\ last.msg.type \in {"CON", "NON"}
   /\ last.msg.code # "EMPTY")
    => LET expected == (last.pre.recieveCounter + 1) % COUNTER_MAX
           ignored == last.msg.code = "REQ" /\ last.msg.reqName = "Ignored"
       IN  /\ dev.recieveCounter = expected
           /\ Emitted(last.msg) => last.msg.id = expected
           /\ last.msg.id = expected => Emitted(last.msg)
           /\ last.msg.id # expected
                => /\ ~Emitted(last.msg)
                   /\ dev.disconnectCounter = last.pre.disconnectCounter + 1
                   /\ last.pre.disconnectCounter = 0
                        => /\ dev.disconnectEmits = 1
                           /\ dev.disconnectReason =
                                IF ignored THEN "Got an Ignore" ELSE "Bad Counter"

C3_Witness ==
  /\ last.op = "routeMessage"
  /\ last.msg.code = "REQ"
  /\ last.msg.reqName = "Ignored"
  /\ last.msg.id # (last.pre.recieveCounter + 1) % COUNTER_MAX
  /\ last.pre.disconnectCounter = 0
  /\ dev.disconnectReason = "Got an Ignore"
  /\ dev.ev = <<[name |-> "disconnect", msg |-> [reason |-> "Got an Ignore"]]>>

\* _increment on a 16-bit counter is the successor modulo 65536.
IncrementIsSuccessor ==
  \A c \in 0..(COUNTER_MAX - 1) : _increment(c, COUNTER_MAX) = (c + 1) % COUNTER_MAX

\* C4: every frame written by sendMessage carries the message-id
\* (sendCounterBefore + 1) mod 65536, for the last call and for every call
\* that could be made in the current state; the counter steps through
\* 1, 2, ..., 65535, 0, 1 because each step is the successor modulo 65536.
C4_SendIds ==
  /\ (last.op = "sendMessage" /\ dev.out # <<>>)
       => /\ Len(dev.out) = 1
          /\ dev.out[1].id = (last.pre.sendCounter + 1) % COUNTER_MAX
          /\ dev.sendCounter = dev.out[1].id
  /\ \A messageName \in SendNames, requester \in Requesters :
       LET r == sendMessage(Begin(dev), messageName, TRUE, requester)
       IN  r.d.out # <<>>
             => /\ Len(r.d.out) = 1
                /\ r.d.out[1].id = (dev.sendCounter + 1) % COUNTER_MAX
  /\ IncrementIsSuccessor

C4_Witness ==
  /\ last.op = "sendMessage"
  /\ last.pre.sendCounter = COUNTER_MAX - 1
  /\ Len(dev.out) = 1
  /\ dev.out[1].id = 0

\* C5: the inbound response carrying the token of a request that was sent
\* and not yet answered is emitted under the response type the Message Table
\* gives for that request.
C5_ResponseNamedByRequest ==
  \A e \in last.pre.live :
    (last.op = "routeMessage" /\ IsResponse(last.msg) /\ last.msg.token = e.token)
      => EmittedAs(getResponseType(e.name), last.msg)

\* C6 as stated: a token key is present in pendingTokens if and only if a
\* request was sent with that token and its response has not been routed.
C6_PendingIffLive ==
  \A t \in 0..(TOKEN_COUNTER_MAX - 1) :
    (_toHexString(t) \in Keys(dev.tokens)) <=> (\E e \in dev.live : e.token = t)

\* C6 as amended: a token key is present in pendingTokens if and only if a
\* sendMessage call that passed the ownership gate has allocated that token;
\* the key has one entry, and routing the response does not remove it.
C6_PendingIffAllocated ==
  /\ Keys(dev.tokens) = {_toHexString(t) : t \in dev.allocated}
  /\ Cardinality(dev.tokens) = Cardinality(Keys(dev.tokens))
  /\ \A e \in dev.live : e.token \in dev.allocated
  /\ (last.op = "routeMessage") => dev.tokens = last.pre.tokens

C6_Witness ==
  /\ last.op = "routeMessage"
  /\ IsResponse(last.msg)
  /\ \E e \in last.pre.live : e.token = last.msg.token
  /\ ~\E e \in dev.live : e.token = last.msg.token
  /\ Emitted(last.msg)
  /\ _toHexString(last.msg.token) \in Keys(dev.tokens)

\* C7: when sendMessage allocates a token whose key is still held by a live
\* request, the call raises an error, the session disconnects and the live
\* entry is not replaced.
C7_LiveTokenNotReplaced ==
  (/\ last.op = "sendMessage"
   /\ dev.sendToken # last.pre.sendToken
   /\ \E e \in last.pre.live : e.token = dev.sendToken)
    => /\ last.threw
       /\ dev.disconnectCounter >= 1
       /\ dev.tokens = last.pre.tokens

\* C8: a listener whose timeout interval has elapsed is settled (resolved or
\* rejected) and detached.
C8_TimeoutSettles ==
  \A i \in DOMAIN dev.listeners :
    dev.listeners[i].expired
      => dev.listeners[i].state # "pending" /\ ~dev.listeners[i].attached

\* C9: once disconnect has run, every listener created before it is rejected
\* (or was settled earlier) and detached.
C9_DisconnectRejectsListeners ==
  dev.disconnectCounter >= 1
    => \A i \in DOMAIN dev.listeners :
         dev.listeners[i].early
           => dev.listeners[i].state # "pending" /\ ~dev.listeners[i].attached

C9_Witness ==
  /\ dev.disconnectCounter >= 1
  /\ last.pre.disconnectCounter = 0
  /\ \E i \in DOMAIN dev.listeners :
       dev.listeners[i].early /\ dev.listeners[i].state = "rejected"

\* An empty confirmable message routed by a ready session that has not been
\* disconnected.
PingRouted ==
  /\ last.op = "routeMessage"
  /\ last.msg.type = "CON"
  /\ last.msg.code = "EMPTY"
  /\ last.pre.readyEmits >= 1
  /\ last.pre.disconnectCounter = 0

PingAcked ==
  /\ dev.lastCorePing = dev.rx
  /\ dev.lastCorePing > last.pre.lastCorePing
  /\ dev.out = <<[name |-> "PingAck", id |-> last.msg.id, token |-> NoToken]>>
  /\ dev.sendCounter = last.pre.sendCounter

\* C10 as stated: every empty confirmable message received by a ready, not
\* disconnected session updates lastPing and is answered by exactly one
\* PingAck with the inbound message-id, sendCounter unchanged.
C10_PingAcked == PingRouted => PingAcked

\* C10 as amended: the same when the ownership lock is not held; while a
\* flasher holds the lock, lastPing is updated and sendCounter is unchanged
\* but no PingAck is written.
C10_PingAckedUnlessLocked ==
  PingRouted
    => IF last.pre.owningFlasher = NoOne THEN PingAcked
       ELSE /\ dev.lastCorePing = dev.rx
            /\ dev.out = <<>>
            /\ dev.sendCounter = last.pre.sendCounter

C10_Witness ==
  /\ PingRouted
  /\ last.pre.owningFlasher = NoOne
  /\ PingAcked

\* The reasons the session gives when it disconnects itself on a counter
\* violation or a handshake failure.
CounterReasons == {"Got an Ignore", "Bad Counter"}
HandshakeReasons == {"failed to parse hello", "handshake error"}

\* C11: in every state the cipher streams are both non-null exactly when the
\* session has emitted Ready and has not been disconnected; they are null
\* before the handshake completes and after the first disconnect.
C11_CipherStreams ==
  /\ dev.cipherStream = dev.decipherStream
  /\ dev.cipherStream <=> (dev.readyEmits >= 1 /\ dev.disconnectCounter = 0)

\* C12: a call made after the session has emitted Disconnect emits no Ready,
\* writes no frame and does not make the session ready, the completion of
\* the handshake operation included.
C12_DisconnectedIsTerminal ==
  last.pre.disconnectCounter >= 1
    => /\ dev.readyEmits = last.pre.readyEmits
       /\ ~EmittedAs("ready", NoMsg)
       /\ dev.out = <<>>
       /\ dev.cipherStream => last.pre.cipherStream

\* C13: when the handshake operation rejects or the device Hello cannot be
\* parsed, a session not yet disconnected emits Disconnect at once with the
\* originating error as reason, writes nothing and has no cipher streams;
\* a session whose handshake failed never emits Ready.
C13_HandshakeFailure ==
  /\ (/\ last.op \in {"handshakeResolved", "handshakeRejected"}
      /\ dev.hs = "failed"
      /\ last.pre.disconnectCounter = 0)
       => /\ dev.disconnectCounter = 1
          /\ dev.disconnectEmits = 1
          /\ dev.disconnectReason =
               IF last.op = "handshakeRejected" THEN "handshake error"
               ELSE "failed to parse hello"
          /\ dev.ev = <<[name |-> "disconnect",
                         msg |-> [reason |-> dev.disconnectReason]]>>
          /\ dev.out = <<>>
          /\ ~dev.cipherStream /\ ~dev.decipherStream
  /\ dev.hs = "failed"
       => /\ dev.readyEmits = 0
          /\ dev.disconnectCounter >= 1
          /\ dev.disconnectEmits = 1
          /\ ~dev.reading

C13_Witness ==
  /\ last.op = "handshakeResolved"
  /\ last.name = "hello unparsable"
  /\ last.pre.disconnectCounter = 0
  /\ dev.hs = "failed"
  /\ dev.disconnectReason = "failed to parse hello"
  /\ dev.readyEmits = 0

\* C14: a session disconnects only for a counter violation, a handshake
\* failure or a socket error, close or timeout; a send (refused by the lock,
\* made before Ready, or failing to wrap), a frame that does not parse and
\* the ownership calls never disconnect it.
C14_DisconnectCauses ==
  /\ dev.disconnectEmits >= 1
       => dev.disconnectReason
            \in CounterReasons \cup HandshakeReasons \cup DisconnectReasons
  /\ (\/ last.op \in {"sendMessage", "takeOwnership", "releaseOwnership"}
      \/ (last.op = "routeMessage" /\ last.msg = Garbage))
       => dev.disconnectCounter = last.pre.disconnectCounter

\* C15: when the cluster-routing emission of ready fails, the session still
\* emits Ready, is not disconnected and reads inbound frames.
C15_RoutingFailureNotFatal ==
  (/\ last.op = "handshakeResolved"
   /\ last.name = "ipc failure"
   /\ last.pre.disconnectCounter = 0)
    => /\ dev.readyEmits = 1
       /\ dev.disconnectCounter = 0
       /\ dev.reading

\* Seeds at which _sendHello is tried in every state that awaits the
\* handshake: the ends of the range of getRandomUINT16 and a value inside.
SeedCases == {1, 255, (2 ^ 16) - 2, (2 ^ 16) - 1}

HelloFrame(id) == [name |-> "Hello", id |-> id, token |-> NoToken]

\* C18 as stated: the Hello frame written after the handshake carries the
\* value drawn from the random source as its message-id.
C18_HelloCarriesSeed ==
  (/\ last.op = "handshakeResolved"
   /\ dev.out # <<>>
   /\ dev.out[1].name = "Hello")
    => dev.out[1].id = last.ret

\* C18 as amended: sendCounter is seeded from the random source and the
\* Hello frame, going through the send path, carries (seed + 1) mod 65536,
\* the value sendCounter is left at; while the ownership lock is held no
\* Hello is written and sendCounter stays at the seed.
C18_HelloCarriesSeedSuccessor ==
  /\ (last.op = "handshakeResolved" /\ last.name # "hello unparsable")
       => IF last.pre.owningFlasher = NoOne
            THEN /\ dev.out # <<>>
                 /\ dev.out[1] = HelloFrame((last.ret + 1) % COUNTER_MAX)
                 /\ dev.sendCounter = (last.ret + 1) % COUNTER_MAX
            ELSE /\ dev.out = <<>>
                 /\ dev.sendCounter = last.ret
  /\ dev.hs = "pending"
       => \A seed \in SeedCases :
            LET d == _sendHello(Begin(dev), seed)
            IN  IF dev.owningFlasher = NoOne
                  THEN /\ d.out = <<HelloFrame((seed + 1) % COUNTER_MAX)>>
                       /\ d.sendCounter = (seed + 1) % COUNTER_MAX
                  ELSE /\ d.out = <<>>
                       /\ d.sendCounter = seed

C18_Witness ==
  /\ last.op = "handshakeResolved"
  /\ last.pre.owningFlasher = NoOne
  /\ last.ret \in getRandomUINT16
  /\ dev.out # <<>>
  /\ dev.out[1] = HelloFrame(last.ret + 1)
  /\ dev.readyEmits = 1

\* C16: a verb called while the ownership lock is held fails at once with
\* the "locked during flashing" error, writes nothing, emits nothing and
\* leaves the counters, the token table and the listeners as they were.
C16_VerbsRefusedUnderLock ==
  (last.op = "verb" /\ last.pre.owningFlasher # NoOne)
    => /\ dev.verb.pc = "done"
       /\ dev.verb.result = Locked
       /\ dev.out = <<>>
       /\ dev.ev = <<>>
       /\ dev.sendCounter = last.pre.sendCounter
       /\ dev.sendToken = last.pre.sendToken
       /\ dev.tokens = last.pre.tokens
       /\ \A i \in DOMAIN dev.listeners : dev.verb.wait # i

\* C17: once introspection data is present, getVariable of a name that is
\* not a key of the variable map ends with "Variable not found" (or with the
\* lock error) and never sends a VariableRequest or awaits its response.
C17_UnknownVariable ==
  (/\ dev.verb.kind = "getVariableValue"
   /\ dev.deviceFunctionState.set
   /\ dev.verb.arg \notin dev.deviceFunctionState.v)
    => /\ dev.verb.pc = "done"
       /\ dev.verb.result \in {"Variable not found", Locked}
       /\ \A i \in DOMAIN dev.out : dev.out[i].name # "VariableRequest"

\* The event name begins with "spark/".
beginsWithSpark(name) == name \in {"spark/device/safemode", "spark/status"}

\* C19: no event name beginning with "spark/" is ever passed to the event
\* publisher, and a handler call that ended for such an event published
\* nothing.
C19_SparkEventsNotPublished ==
  /\ \A name \in dev.published : ~beginsWithSpark(name)
  /\ \A name \in EventNames :
       (beginsWithSpark(name) /\ dev.srv.pc = "attrs" /\ dev.srv.name = name)
         => attributesArrived(dev).published = dev.published

C19_Witness ==
  /\ dev.srv.pc = "done"
  /\ beginsWithSpark(dev.srv.name)
  /\ dev.srv.acked
  /\ dev.published = {"temp"}

\* C20: a handler call that has ended for an event whose name begins with
\* "spark/" has written an EventAck carrying the event's message-id.
C20_SparkEventsAcked ==
  (dev.srv.pc \in {"done", "failed"} /\ beginsWithSpark(dev.srv.name))
    => dev.srv.acked

\* The events of that name the last call emitted.
EventCount(eventName) ==
  Cardinality({i \in DOMAIN dev.ev : dev.ev[i].name = eventName})

\* What the last call emitted of the flash events: a flash call refused by
\* the gate nothing; a flash call that passed it FlashStarted, first and
\* once; any other call no FlashStarted; and the counts of the flash call
\* are the events emitted.
FlashEventsStep ==
  IF last.op = "flash" /\ last.threw
    THEN dev.ev = <<>> /\ dev.flasher = last.pre.flasher
  ELSE IF last.op = "flash"
    THEN /\ dev.ev # <<>>
         /\ dev.ev[1].name = "flash/started"
         /\ EventCount("flash/started") = 1
         /\ EventCount("flash/success") = dev.flasher.success
         /\ EventCount("flash/failed") = dev.flasher.failed
  ELSE /\ EventCount("flash/started") = 0
       /\ EventCount("flash/success") = dev.flasher.success - last.pre.flasher.success
       /\ EventCount("flash/failed") = dev.flasher.failed - last.pre.flasher.failed
       /\ dev.flasher.started = last.pre.flasher.started

FlashFailure == "Update failed: "

\* The flash call that passed the gate has emitted FlashStarted once; while
\* it is in flight it has emitted neither FlashSuccess nor FlashFailed, and
\* once it has ended it has emitted exactly one of them: FlashSuccess when
\* it returned, FlashFailed when it failed with "Update failed: <cause>".
FlashEventsOnce ==
  /\ FlashEventsStep
  /\ dev.flasher.pc # "none" => dev.flasher.started = 1
  /\ FlashInFlight(dev)
       => dev.flasher.success = 0 /\ dev.flasher.failed = 0 /\ dev.flasher.result = ""
  /\ dev.flasher.pc = "done"
       => /\ dev.flasher.success + dev.flasher.failed = 1
          /\ dev.flasher.success = 1 <=> dev.flasher.result = "Update finished"
          /\ dev.flasher.failed = 1
               <=> /\ Len(dev.flasher.result) > Len(FlashFailure)
                   /\ IsPrefix(FlashFailure, dev.flasher.result)

\* A bound on the waits a flash call in flight still has before it ends.
FlashRank(f) ==
  CASE f.pc = "begin" -> (Len(Binary) * (MaxRetries + 1)) + 2
    [] f.pc = "chunk" ->
         ((Len(Binary) - f.k) * (MaxRetries + 1)) + (MaxRetries - f.tries) + 2
    [] f.pc = "finish" -> 1
    [] OTHER -> 0

\* A flash call in flight cannot stay in flight for ever: it awaits a pending
\* listener whose timer is armed, so that the wait ends at the latest when
\* the timer fires; and whenever a wait has ended, the call has ended or the
\* bound on its remaining waits has decreased.
FlashProgress ==
  /\ FlashInFlight(dev)
       => LET l == dev.listeners[dev.flasher.wait]
          IN  l.state = "pending" /\ l.attached /\ l.timer = "armed" /\ ~l.expired
  /\ FlashRank(dev.flasher) >= 0
  /\ (/\ last.op # "flash"
      /\ last.pre.flasher.pc \in {"begin", "chunk", "finish"}
      /\ dev.listeners[last.pre.flasher.wait].state # "pending")
       => FlashRank(dev.flasher) < FlashRank(last.pre.flasher)

FlashEndEmitted == EventCount("flash/success") + EventCount("flash/failed") >= 1

\* C22: when a flash call ends, by success or by any failure (a disconnect
\* during the transfer included), the ownership lock is released: it is
\* empty once FlashSuccess or FlashFailed has been emitted and whenever no
\* flash call is in flight, so that a verb or a flash called then is not
\* refused.
C22_LockReleased ==
  /\ FlashEndEmitted
       => /\ dev.flasher.pc = "done"
          /\ dev.owningFlasher = NoOne
          /\ callVerb(dev, "raiseYourHand", "").verb.result # Locked
          /\ ~flash(dev).threw
  /\ dev.owningFlasher = NoOne <=> ~FlashInFlight(dev)
  /\ (last.op = "verb" /\ last.pre.flasher.pc \in {"none", "done"})
       => dev.verb.result # Locked /\ dev.verb.pc = "reply"

C22_Witness ==
  /\ last.op = "disconnect"
  /\ last.pre.flasher.pc = "chunk"
  /\ last.pre.owningFlasher = TheFlasher
  /\ EventCount("flash/failed") = 1
  /\ dev.owningFlasher = NoOne

\* Holders that may ask for the ownership lock or give it back.
Holders == Flashers \cup {"F2", TheFlasher}

\* C23: the ownership lock has at most one holder.  takeOwnership(h) succeeds
\* only when the lock is empty, and then h holds it; otherwise it returns
\* false and leaves the holder, and the rest of the session, unchanged.
\* releaseOwnership(h) empties the lock only when h is the holder and
\* otherwise changes nothing.  Stated of the last call, and of every call
\* that could be made in the current state.
C23_OwnershipLock ==
  /\ dev.owningFlasher \in {NoOne} \cup Holders
  /\ last.op = "takeOwnership"
       => IF last.pre.owningFlasher = NoOne
            THEN last.ret = 1 /\ dev.owningFlasher = last.requester
            ELSE last.ret = 0 /\ dev.owningFlasher = last.pre.owningFlasher
  /\ last.op = "releaseOwnership"
       => dev.owningFlasher =
            IF last.pre.owningFlasher = last.requester THEN NoOne
            ELSE last.pre.owningFlasher
  /\ \A h \in Holders :
       /\ takeOwnership(dev, h) =
            IF dev.owningFlasher = NoOne
              THEN [d |-> [dev EXCEPT !.owningFlasher = h], ret |-> TRUE]
              ELSE [d |-> dev, ret |-> FALSE]
       /\ releaseOwnership(dev, h) =
            IF dev.owningFlasher = h
              THEN [dev EXCEPT !.owningFlasher = NoOne]
              ELSE dev

C23_Witness ==
  /\ last.op = "takeOwnership"
  /\ last.pre.owningFlasher = "F1"
  /\ last.ret = 0
  /\ dev.owningFlasher = "F1"
  /\ releaseOwnership(dev, "F2") = dev

\* The chunks of the Chunk frames written by the flash call, in order.
RECURSIVE ChunksSent(_)
ChunksSent(trace) ==
  IF trace = <<>> THEN <<>>
  ELSE (IF Head(trace)[1] = "sent" THEN <<Head(trace)[2]>> ELSE <<>>)
       \o ChunksSent(Tail(trace))

\* The chunks are sent in binary order: the first is chunk 1 and each is
\* followed by itself (a retransmission) or by the next chunk.
ChunksInOrder(sent) ==
  /\ sent # <<>> => sent[1] = 1
  /\ \A i \in 1..(Len(sent) - 1) : sent[i + 1] \in {sent[i], sent[i] + 1}
  /\ \A i \in DOMAIN sent : sent[i] \in DOMAIN Binary

\* Before each Chunk frame of a chunk k + 1, a ChunkReceived with the CRC of
\* chunk k was emitted while chunk k was the chunk last sent.
ChunksAcked(trace) ==
  \A i \in DOMAIN trace :
    (trace[i][1] = "sent" /\ trace[i][2] > 1)
      => \E j \in 1..(i - 1), m \in 1..(i - 1) :
           /\ j < m
           /\ trace[j] = <<"sent", trace[i][2] - 1>>
           /\ trace[m] = <<"rcvd", crc32(Binary[trace[i][2] - 1])>>
           /\ \A n \in (j + 1)..(m - 1) : trace[n][1] # "sent"

\* The last call ended the wait for the ChunkReceived of a chunk by a
\* mismatch or a timeout.
ChunkWaitFailed ==
  /\ last.op # "flash"
  /\ last.pre.flasher.pc = "chunk"
  /\ LET l == dev.listeners[last.pre.flasher.wait]
     IN  \/ l.state = "timedout"
         \/ l.state = "resolved" /\ l.payload # crc32(Binary[last.pre.flasher.k])

\* C24: during a flash the chunks are sent in binary order, and chunk k + 1
\* is never sent before a ChunkReceived whose CRC matches chunk k has been
\* received; on a mismatch or a timeout the same chunk k is retransmitted
\* (its frame is written if the session still has its cipher stream),
\* unless its retries are used up, and then the flash fails.
C24_ChunksInOrder ==
  /\ ChunksInOrder(ChunksSent(dev.flasher.trace))
  /\ ChunksAcked(dev.flasher.trace)
  /\ ChunkWaitFailed
       => IF last.pre.flasher.tries < MaxRetries
            THEN /\ dev.flasher.pc = "chunk"
                 /\ dev.flasher.k = last.pre.flasher.k
                 /\ dev.flasher.tries = last.pre.flasher.tries + 1
                 /\ dev.cipherStream
                      => /\ dev.out # <<>>
                         /\ dev.out[Len(dev.out)].name = "Chunk"
                         /\ dev.flasher.trace # <<>>
                         /\ dev.flasher.trace[Len(dev.flasher.trace)]
                              = <<"sent", dev.flasher.k>>
            ELSE /\ dev.flasher.pc = "done"
                 /\ dev.flasher.failed = 1
                 /\ dev.out = <<>>

C24_Witness ==
  /\ ChunksSent(dev.flasher.trace) = <<1, 1, 2, 2>>
  /\ dev.cipherStream
  /\ ChunkWaitFailed
  /\ last.op = "routeMessage"
  /\ dev.flasher.pc = "chunk"

\* The string is two lowercase hexadecimal digits.
IsTwoHexDigits(str) ==
  \E hi \in DOMAIN HexDigits, lo \in DOMAIN HexDigits :
    str = HexDigits[hi] \o HexDigits[lo]

\* C25: the pendingTokens key computed for a token value in 0..255 is a
\* 2-character lowercase hexadecimal string, zero-padded, equal to the token
\* string of a message carrying that one-byte token.  Stated of the token
\* the session has last allocated and of every key of the table.
C25_TokenKeys ==
  /\ dev.sendToken \in 0..(TOKEN_COUNTER_MAX - 1)
  /\ IsTwoHexDigits(_toHexString(dev.sendToken))
  /\ _toHexString(dev.sendToken) = getTokenString(dev.sendToken)
  /\ \A e \in dev.tokens : IsTwoHexDigits(e.key)

\* C26: sendToken wraps at 256: the n-th token-bearing send of a session
\* allocates n mod 256 (1, 2, ..., 255, 0, 1, ...), the successor modulo 256
\* of the token before it; and a send that comes back to a token used
\* before the wrap finds its slot free: it raises no collision error,
\* registers its request under the key and writes its frame with the token.
C26_TokenWraps ==
  /\ dev.sendToken = calls.send % TOKEN_COUNTER_MAX
  /\ last.op = "sendMessage"
       => /\ dev.sendToken = (last.pre.sendToken + 1) % TOKEN_COUNTER_MAX
          /\ ~last.threw
          /\ TokenAt(dev.tokens, _toHexString(dev.sendToken)) = last.name
          /\ dev.out = <<[name |-> last.name, id |-> dev.sendCounter,
                          token |-> dev.sendToken]>>
          /\ last.ret = dev.sendToken

C26_Witness ==
  /\ last.op = "sendMessage"
  /\ calls.send = TOKEN_COUNTER_MAX + 1
  /\ dev.sendToken = 1
  /\ _toHexString(1) \in Keys(last.pre.tokens)
  /\ ~last.threw
  /\ last.ret = 1

\* The describe of the verb in flight was awaiting its second DescribeReturn
\* before the last call.
AwaitedSecondDescribe == last.op # "verb" /\ last.pre.verb.pc = "E2"

\* The synthetic resolver does not fire: after a first DescribeReturn that
\* parses and lacks f or v, the describe awaits a second DescribeReturn.
NoSyntheticResolve ==
  (/\ last.op # "verb"
   /\ last.pre.verb.pc = "E1"
   /\ dev.listeners[last.pre.verb.wait].state = "resolved"
   /\ dev.listeners[last.pre.verb.wait].payload = "sys")
    => /\ dev.verb.pc = "E2"
       /\ dev.verb.wait = Len(dev.listeners)
       /\ dev.listeners[dev.verb.wait].state = "pending"
       /\ dev.listeners[dev.verb.wait].eventName = "DescribeReturn"
       /\ ~dev.deviceFunctionState.set

\* C27 as stated: when the first DescribeReturn does not contain both f and
\* v, the synthetic resolver never fires and the describe stays pending
\* until a second DescribeReturn arrives: the wait ends only by a routed
\* DescribeReturn, and the lapse of a timeout does not end it.
C27_DescribeWaitsForSecond ==
  /\ NoSyntheticResolve
  /\ (AwaitedSecondDescribe /\ dev.verb.pc # "E2")
       => /\ last.op = "routeMessage"
          /\ EmittedAs("DescribeReturn", last.msg)
  /\ (AwaitedSecondDescribe /\ last.op = "timeout") => dev.verb.pc = "E2"

\* C27 as amended: the synthetic resolver never fires and the describe
\* stays pending until a second DescribeReturn arrives, the timeout of the
\* second listener fires, or the session disconnects; in the last two cases
\* the describe fails, with 'Request timed out' when the timeout fired.
C27_DescribeWaitsOrTimesOut ==
  /\ NoSyntheticResolve
  /\ AwaitedSecondDescribe
       => LET l == dev.listeners[last.pre.verb.wait]
          IN  /\ dev.verb.pc = "E2" <=> l.state = "pending"
              /\ l.state = "resolved"
                   => /\ last.op = "routeMessage"
                      /\ EmittedAs("DescribeReturn", last.msg)
              /\ (last.op = "timeout" /\ l.expired)
                   => /\ l.state = "timedout"
                      /\ dev.verb.pc = "done"
                      /\ dev.verb.result =
                           IF dev.verb.kind = "getDescription"
                             THEN "No device state!" ELSE "Request timed out"
                      /\ ~dev.deviceFunctionState.set
              /\ last.op = "disconnect"
                   => /\ l.state = "rejected"
                      /\ dev.verb.pc = "done"
                      /\ dev.verb.result \notin {"", "ok"}
                      /\ ~dev.deviceFunctionState.set

C27_Witness ==
  /\ AwaitedSecondDescribe
  /\ last.op = "timeout"
  /\ dev.listeners[last.pre.verb.wait].state = "timedout"
  /\ dev.verb.kind = "getVariableValue"
  /\ dev.verb.result = "Request timed out"

\* C28: receiveCounter advances by exactly one (mod 65536) for every inbound
\* message that is not an acknowledgement, the empty confirmable pings
\* included, and is left unchanged by every inbound acknowledgement, by a
\* frame that does not parse, and by every outbound send or reply.
C28_ReceiveCounter ==
  /\ last.op = "routeMessage"
       => dev.recieveCounter =
            IF last.msg.type \in {"CON", "NON"}
              THEN (last.pre.recieveCounter + 1) % COUNTER_MAX
              ELSE last.pre.recieveCounter
  /\ last.op \in {"sendMessage", "sendReply"}
       => dev.recieveCounter = last.pre.recieveCounter
  /\ \A messageName \in ReplyNames, id \in ReplyIds, requester \in Requesters :
       sendReply(dev, messageName, id, NoToken, requester).recieveCounter
         = dev.recieveCounter

C28_Witness ==
  /\ last.op = "routeMessage"
  /\ last.msg.type = "CON"
  /\ last.msg.code = "EMPTY"
  /\ last.pre.recieveCounter = COUNTER_MAX - 1
  /\ dev.recieveCounter = 0
  /\ dev.out # <<>>


\* C29: an inbound acknowledgement is emitted under the response type derived
\* from its token, or under PingAck when the token has no pendingTokens
\* entry, and is never subject to the counter check: routing it changes
\* neither receiveCounter nor the disconnected state of the session.
PendingRequestOf(tokens, token) == TokenAt(tokens, _toHexString(token))

C29_AckRouting ==
  (last.op = "routeMessage" /\ isAcknowledgement(last.msg))
    => /\ EmittedAs(IF PendingRequestOf(last.pre.tokens, last.msg.token) = ""
                      THEN "PingAck"
                      ELSE getResponseType(
                             PendingRequestOf(last.pre.tokens, last.msg.token)),
                    last.msg)
       /\ dev.recieveCounter = last.pre.recieveCounter
       /\ dev.disconnectCounter = last.pre.disconnectCounter


\* C30: a sendReply frame carries exactly the id passed when that id is not
\* negative, and sendCounter is then unchanged; with a negative id sendReply
\* increments sendCounter (mod 65536) and the frame carries the new value;
\* sendReply never changes sendToken or pendingTokens; and it is refused, the
\* session left as it was, exactly when the ownership gate refuses a
\* sendMessage of the same requester.  A frame is written when the gate
\* passes, the message wraps and the cipher stream exists.
ReplyPasses == last.pre.owningFlasher \in {NoOne, last.requester}

ReplyWritten ==
  ReplyPasses /\ wrap(last.name, TRUE) /\ last.pre.cipherStream

ReplyId ==
  IF last.msg.id >= 0 THEN last.msg.id
  ELSE (last.pre.sendCounter + 1) % COUNTER_MAX

C30_ReplyIds ==
  /\ last.op = "sendReply"
       => /\ dev.sendToken = last.pre.sendToken
          /\ dev.tokens = last.pre.tokens
          /\ dev.sendCounter =
               IF ReplyPasses /\ last.msg.id < 0
                 THEN (last.pre.sendCounter + 1) % COUNTER_MAX
                 ELSE last.pre.sendCounter
          /\ dev.out = IF ReplyWritten
                         THEN <<[name |-> last.name, id |-> ReplyId,
                                 token |-> last.msg.token]>>
                         ELSE <<>>
  /\ \A messageName \in ReplyNames, id \in ReplyIds, requester \in Requesters :
       IF _isSocketAvailable(dev, requester)
         THEN /\ sendMessage(dev, "Describe", TRUE, requester).d # dev
              /\ id < 0 => sendReply(dev, messageName, id, NoToken, requester) # dev
         ELSE /\ sendMessage(dev, "Describe", TRUE, requester).d = dev
              /\ sendReply(dev, messageName, id, NoToken, requester) = dev

C30_Witness ==
  /\ last.op = "sendReply"
  /\ last.msg.id < 0
  /\ last.pre.owningFlasher = "F1"
  /\ last.requester = "F1"
  /\ last.pre.sendCounter = COUNTER_MAX - 1
  /\ dev.out = <<[name |-> "EventAck", id |-> 0, token |-> 5]>>


\* C31: a listenFor listener resolves only with a message emitted under its
\* event name whose URI starts with the given prefix (if one was given) and
\* whose token is the given token (if one was given); it resolves at most
\* once and detaches when it resolves; an emission that does not match
\* leaves it attached and pending.  Stated of every step.
TokenGiven(l) == l.token # NoToken /\ l.token # 0

Matches(l, e) ==
  /\ e.name = l.eventName
  /\ (l.uri # NoUri => IsPrefix(l.uri, e.msg.uri))
  /\ (TokenGiven(l) => e.msg.token = l.token)

ListenerStep(l, l2, evs) ==
  /\ (l.state # "resolved" /\ l2.state = "resolved")
       => /\ \E k \in DOMAIN evs : Matches(l, evs[k]) /\ l2.payload = evs[k].msg.payload
          /\ l.attached
          /\ ~l2.attached
  /\ l.state = "resolved" => (l2.state = "resolved" /\ l2.payload = l.payload)
  /\ (/\ l.attached /\ l.state = "pending"
      /\ last'.op = "routeMessage"
      /\ \A k \in DOMAIN evs : ~Matches(l, evs[k]))
       => (l2.attached /\ l2.state = "pending")

C31_ListenerFilters ==
  [][\A i \in DOMAIN dev.listeners :
       ListenerStep(dev.listeners[i], dev'.listeners[i], dev'.ev)]_vars

C31_Witness ==
  /\ last.op = "routeMessage"
  /\ Len(dev.listeners) = 2
  /\ dev.listeners[1].uri = <<"d">>
  /\ TokenGiven(dev.listeners[1])
  /\ dev.listeners[1].state = "resolved"
  /\ last.msg.uri = <<"d", "x">>
  /\ last.msg.token = dev.listeners[1].token
  /\ dev.listeners[2].state = "pending"
  /\ dev.listeners[2].attached
  /\ dev.listeners[2].eventName = dev.listeners[1].eventName


\* C36: for every token sendMessage allocates to a token-bearing request, the
\* value it returns, passed to listenFor, makes the listener resolve only with
\* a message carrying that same token; the value 0 is returned only for
\* messages that bear no token.
ListenerFor(d, eventName, token) ==
  LET d1 == listenFor(d, eventName, NoUri, token)
  IN  d1.listeners[Len(d1.listeners)]

ResponseWith(token) ==
  [type |-> "ACK", code |-> "RESP", id |-> 0, token |-> token,
   reqName |-> "", uri |-> <<"d">>, payload |-> ""]

C36_ReturnedTokenFilters ==
  (last.op = "sendMessage" /\ dev.out # <<>> /\ dev.out[1].token # NoToken)
    => /\ last.ret # 0
       /\ \A token \in 0..(TOKEN_COUNTER_MAX - 1) :
            handler(ListenerFor(dev, getResponseType(last.name), last.ret),
                    ResponseWith(token)).state = "resolved"
              => token = dev.out[1].token


\* C35: a sendMessage that passes the ownership gate and returns -1 without
\* writing a frame, because wrap failed or the cipher stream is null,
\* consumes no message-id and registers no token, so that the ids of the
\* frames written are consecutive modulo 65536.
C35_FailedSendConsumesNothing ==
  (/\ last.op = "sendMessage"
   /\ last.pre.owningFlasher \in {NoOne, last.requester}
   /\ last.ret = -1
   /\ ~last.threw
   /\ dev.out = <<>>)
    => /\ dev.sendCounter = last.pre.sendCounter
       /\ dev.sendToken = last.pre.sendToken
       /\ dev.tokens = last.pre.tokens


PendingPing(helloId) ==
  [type |-> "CON", code |-> "EMPTY", id |-> _increment(helloId, COUNTER_MAX),
   token |-> NoToken, reqName |-> "", uri |-> <<"d">>, payload |-> ""]

PendingEvent(helloId) ==
  [type |-> "CON", code |-> "REQ",
   id |-> _increment(_increment(helloId, COUNTER_MAX), COUNTER_MAX),
   token |-> NoToken, reqName |-> "PublicEvent", uri |-> <<"d">>, payload |-> ""]

Resolved(pendingBuffers) ==
  handshakeResolved(Begin(dev), TRUE, 65534, 65534, TRUE, pendingBuffers, NoThrow)

RoutedInOrder(m, n) ==
  Resolved(<<m, n>>) = routeMessage(routeMessage(Resolved(<<>>), m, NoThrow), n, NoThrow)

C38_RefusedRequestFails ==
  (dev.verb.pc = "reply" /\ last.pre.verb.pc # "reply")
    => \E i \in DOMAIN dev.out :
         dev.out[i].name \in {"VariableRequest", "FunctionCall", "SignalStart"}


\* C33: introspection is all-or-nothing: in every state between operations
\* systemInformation and functionState are both absent or both set, also
\* when two verbs fetch the description concurrently, and once they are
\* populated no step of a verb overwrites them.
C33_IntrospectionAtomic ==
  [][/\ (dev'.systemInformation # "") <=> dev'.deviceFunctionState.set
     /\ dev.deviceFunctionState.set
          => /\ dev'.deviceFunctionState = dev.deviceFunctionState
             /\ dev'.systemInformation = dev.systemInformation]_vars


\* C39: a handler call that has ended for an event whose name does not begin
\* with "spark/" has passed the event to the event publisher, whatever else
\* its name contains.
C39_OtherEventsPublished ==
  (dev.srv.pc = "done" /\ ~beginsWithSpark(toLowerCase(dev.srv.name)))
    => dev.srv.name \in dev.published

\* The session is ready and not disconnected.
Live(d) == d.readyEmits >= 1 /\ d.disconnectCounter = 0

OtherSession(s) == IF s = "peer" THEN "this" ELSE "peer"

\* The step makes the session s ready: it emits READY and the session is not
\* disconnected.
BecomesReady(s) ==
  /\ session(dev', s).readyEmits > session(dev, s).readyEmits
  /\ Live(session(dev', s))

\* The step is the first disconnect of the session s.
Disconnects(s) ==
  /\ session(dev, s).hs # "none"
  /\ session(dev, s).disconnectCounter = 0
  /\ session(dev', s).disconnectCounter >= 1

\* C32: when a session becomes Ready while the registry maps the device ID to
\* the other session, the other session is disconnected and the registry maps
\* the ID to the new session; and two sessions of the device are never both
\* ready and not disconnected.
C32_ReconnectEvicts ==
  [][/\ \A s \in Sessions :
          BecomesReady(s)
            => /\ dev'.devicesById = s
               /\ dev.devicesById = OtherSession(s)
                    => session(dev', OtherSession(s)).disconnectCounter >= 1
     /\ ~(Live(dev') /\ Live(dev'.peer))]_vars

\* C34: the disconnect of a session the registry does not map the device ID
\* to leaves the registry entry of the other session, the subscriptions and
\* the published status events as they are.
C34_DisconnectEvictsOnlyItself ==
  [][\A s \in Sessions :
       (/\ Disconnects(s)
        /\ dev.devicesById = OtherSession(s)
        /\ ~Disconnects(OtherSession(s)))
         => /\ dev'.devicesById = dev.devicesById
            /\ dev'.subscriptions = dev.subscriptions
            /\ dev'.statusEvents = dev.statusEvents]_vars

\* C37: once the server has handled the Disconnect of the session, the event
\* publisher holds no subscription registered on behalf of that session.
C37_NoSubscriptionAfterDisconnect ==
  dev.disconnectEmits >= 1
    => \A x \in dev.subscriptions : x.session # "this"

====
